---- MODULE Spec2Model ----
(***************************************************************************)
(* linkifyjs scanner: the character-level state machine built by init()    *)
(* and the greedy longest-match loop of run().                             *)
(*                                                                         *)
(* A JavaScript string is a sequence of UTF-16 code units (integers).      *)
(* State objects live in a heap (a sequence of records); a State is named  *)
(* by its index in the heap and 0 stands for null/undefined.               *)
(***************************************************************************)
EXTENDS Integers, Sequences, FiniteSets, TLC

VARIABLES
    tlds,        \* module-level cache `tlds`  (scanner.mjs:18)
    utlds,       \* module-level cache `utlds` (scanner.mjs:19)
    heap,        \* every State object allocated so far
    scanners,    \* the values returned by the init() calls made so far
    script,      \* the calls the client still has to make
    results,     \* the values returned by the run() calls made so far
    pc,          \* where the client is: "idle", inside run ("outer", "inner"), "threw"
    start,       \* run: parameter `start`
    str,         \* run: parameter `str`
    iterable,    \* run: const iterable
    tokens,      \* run: const tokens
    cursor,      \* run: let cursor
    charCursor,  \* run: let charCursor
    state,       \* run: let state
    tokenLength, \* run: let tokenLength
    latestAccepting,   \* run: let latestAccepting (0 = null)
    sinceAccepts,      \* run: let sinceAccepts
    charsSinceAccepts, \* run: let charsSinceAccepts
    INIT,        \* linkify: the cached machine, the custom schemes, the dirty mark
    thrown,      \* what the client's last call threw ("" when it returned)
    opts,        \* stringToElements: parameter `opts`
    meta,        \* stringToElements: parameter `meta`
    mtokens,     \* stringToElements: const tokens (the tokens tokenize returned)
    elements,    \* stringToElements: const elements
    iToken       \* stringToElements: let i

runVars == <<start, str, iterable, tokens, cursor, charCursor, state, tokenLength,
             latestAccepting, sinceAccepts, charsSinceAccepts>>
\* What the callers of the scanner keep
outerVars == <<INIT, thrown, opts, meta, mtokens, elements, iToken>>
vars == <<tlds, utlds, heap, scanners, script, results, pc, runVars, outerVars>>

----------------------------------------------------------------------------
(* Characters and strings *)

CR == 13
LF == 10
EMOJI_VARIATION == 65039
EMOJI_JOINER == 8205
OBJECT_REPLACEMENT == 65532

Min(a, b) == IF a < b THEN a ELSE b
Max(a, b) == IF a > b THEN a ELSE b

\* String.prototype.slice(from, to) on a sequence of code units (0-based, end excluded)
slice(s, from, to) ==
    LET n == Len(s)
        a == IF from < 0 THEN Max(n + from, 0) ELSE Min(from, n)
        b == IF to < 0 THEN Max(n + to, 0) ELSE Min(to, n)
    IN  IF a >= b THEN <<>> ELSE SubSeq(s, a + 1, b)

\* str.replace(/[A-Z]/g, (c) => c.toLowerCase())
lowerAZ_identity(s) == s
lowerAZ(s) == [i \in 1..Len(s) |-> IF s[i] \in 65..90 THEN s[i] + 32 ELSE s[i]]

\* The string with every a-z replaced by A-Z
upperAZ(s) == [i \in 1..Len(s) |-> IF s[i] \in 97..122 THEN s[i] - 32 ELSE s[i]]

isHighSurrogate(u) == u >= 55296 /\ u <= 56319
isLowSurrogate(u) == u >= 56320 /\ u <= 57343

\* stringToArrayFrom, the second code unit of a pair not looked at
RECURSIVE stringToArrayFrom_anySecond(_, _)
stringToArrayFrom_anySecond(s, index) ==
    IF index >= Len(s) THEN <<>>
    ELSE IF s[index + 1] < 55296 \/ s[index + 1] > 56319 \/ index + 1 = Len(s)
    THEN <<<<s[index + 1]>>>> \o stringToArrayFrom_anySecond(s, index + 1)
    ELSE <<slice(s, index, index + 2)>> \o stringToArrayFrom_anySecond(s, index + 2)

\* stringToArray: the units of a string, a surrogate pair being one unit
RECURSIVE stringToArrayFrom(_, _)
stringToArrayFrom(s, index) ==
    IF index >= Len(s) THEN <<>>
    ELSE LET first == s[index + 1]
             single == \/ first < 55296
                       \/ first > 56319
                       \/ index + 1 = Len(s)
                       \/ s[index + 2] < 56320
                       \/ s[index + 2] > 57343
             char == IF single THEN <<first>> ELSE slice(s, index, index + 2)
         IN  <<char>> \o stringToArrayFrom(s, index + Len(char))

stringToArray(s) == stringToArrayFrom(s, 0)

\* The code point of a unit made by stringToArray
codePoint(u) ==
    IF Len(u) = 2 THEN 65536 + (u[1] - 55296) * 1024 + (u[2] - 56320) ELSE u[1]

\* The code points of a string, as a /u regular expression sees them
codePoints(s) == LET a == stringToArray(s) IN {codePoint(a[i]) : i \in 1..Len(a)}
\* The code units of a string, as a regular expression without /u sees them
codeUnits(s) == {s[i] : i \in 1..Len(s)}

----------------------------------------------------------------------------
(* regexp.mjs: the character classes.  RegExp.test(s) is true when some    *)
(* character of s is in the class.                                         *)

\* \p{L}, cut down to the blocks the model's inputs use
LetterCodePoints ==
    (65..90) \cup (97..122) \cup (192..214) \cup (1040..1103) \cup (19968..40959)
\* \p{Emoji}, cut down likewise; the keycap bases # * 0-9 have the property
EmojiCodePoints ==
    {35, 42} \cup (48..57) \cup {10084} \cup (128512..128591)
\* \s
SpaceCodeUnits ==
    {9, 10, 11, 12, 13, 32, 160, 5760, 8232, 8233, 8239, 8287, 12288, 65279}
        \cup (8192..8202)

test(re, s) ==
    CASE re = "DIGIT" -> codeUnits(s) \cap (48..57) # {}
      [] re = "ASCII_LETTER" -> codeUnits(s) \cap (97..122) # {}
      [] re = "LETTER" -> codePoints(s) \cap LetterCodePoints # {}
      [] re = "SPACE" -> codeUnits(s) \cap SpaceCodeUnits # {}
      [] re = "EMOJI" -> codePoints(s) \cap EmojiCodePoints # {}
      [] OTHER -> FALSE

----------------------------------------------------------------------------
(* text.mjs: token names.  A token name is a string; the name of a custom  *)
(* scheme's token is the scheme itself.                                    *)

tk(name) == [tk |-> name, sch |-> <<>>]
schemeToken(sch) == [tk |-> "", sch |-> sch]
NoToken == [tk |-> "", sch |-> <<>>]

----------------------------------------------------------------------------
(* fsm.mjs: State, go, accepts, tt, tr, ts, addToGroups *)

Flags == {"numeric", "ascii", "alpha", "asciinumeric", "alphanumeric", "domain",
          "emoji", "scheme", "slashscheme", "tld", "utld", "whitespace"}

NoEdges == [x \in {} |-> 0]

\* new State(token)
State(t) == [t |-> t, j |-> NoEdges, jr |-> <<>>, jd |-> 0]

\* The builder: the heap, the token groups (State.groups), the State the last
\* operation returned, the flags given to each custom scheme, and init's locals
Builder(h) ==
    [h |-> h, g |-> [f \in Flags |-> {}], r |-> 0, given |-> <<>>,
     Start |-> 0, Num |-> 0, Asciinumeric |-> 0, Alphanumeric |-> 0, Word |-> 0,
     UWord |-> 0, Nl |-> 0, Cr |-> 0, Ws |-> 0, Emoji |-> 0, EmojiJoiner |-> 0]

\* State.prototype.accepts
accepts(st) == st.t # NoToken

\* The first class edge of jr, from index i on, that has a target and matches
RECURSIVE goJr(_, _, _)
goJr(jr, i, input) ==
    IF i > Len(jr) THEN 0
    ELSE IF jr[i][2] # 0 /\ test(jr[i][1], input) THEN jr[i][2]
    ELSE goJr(jr, i + 1, input)

\* next, or the default when there is no next
orDefault(next, jd) == IF next # 0 THEN next ELSE jd

\* State.prototype.go: literal edge, then class edges in order, then the default
go(h, s, input) ==
    IF input \in DOMAIN h[s].j THEN h[s].j[input]
    ELSE orDefault(goJr(h[s].jr, 1, input), h[s].jd)

addToGroups(t, flags, g) == [f \in Flags |-> IF f \in flags THEN g[f] \cup {t} ELSE g[f]]
flagsForToken(t, g) == {f \in Flags : t \in g[f]}

\* Every State a builder names is in its heap.  Testing it makes the evaluator
\* finish one registration before it starts the next.
built(b) == b.r <= Len(b.h)

alloc(b, st) == [b EXCEPT !.h = Append(b.h, st), !.r = Len(b.h) + 1]
setEdge(b, s, input, next) == [b EXCEPT !.h[s].j = (input :> next) @@ @, !.r = next]

\* state.j[input] = new State
allocEdge(b, s, input, st) == setEdge(alloc(b, st), s, input, Len(b.h) + 1)

\* addToGroups(t, flags, groups) on the builder's groups
grouped(b, t, flags) == [b EXCEPT !.g = addToGroups(t, flags, b.g)]

\* state.tt(input, next) with next an existing State
ttState(b, s, input, next) == setEdge(b, s, input, next)

\* The State tt copies: the one the input leads to now, or an empty one
ttTemplate(h, template) == IF template # 0 THEN h[template] ELSE State(NoToken)

\* The flags tt gives the token t: the ones asked for and, when the copied
\* State has a token, that token's
ttFlags(g, copy, t, flags) ==
    IF copy.t # NoToken THEN flagsForToken(copy.t, g) \cup flags ELSE flags

\* The copy put behind the edge, retagged when t is given
ttCopy(b, s, input, t, flags, copy) ==
    IF t = NoToken THEN allocEdge(b, s, input, copy)
    ELSE allocEdge(grouped(b, t, ttFlags(b.g, copy, t, flags)), s, input, [copy EXCEPT !.t = t])

\* state.tt(input, t, flags) with t a token name or nothing: the new State is a
\* copy of the State the input leads to now, retagged when t is given
tt(b, s, input, t, flags) ==
    ttCopy(b, s, input, t, flags, ttTemplate(b.h, go(b.h, s, input)))

\* state.tr(regexp, next) with next an existing State (0: no State, as in [re, null])
trState(b, s, re, next) == [b EXCEPT !.h[s].jr = Append(@, <<re, next>>), !.r = next]

\* state.tr(regexp, t, flags) with t a token name or nothing
tr(b, s, re, t, flags) ==
    trState(alloc(grouped(b, t, flags), State(t)), s, re, Len(b.h) + 1)

\* ts from the State b.r on: tt along the characters, the token on the last
RECURSIVE tsFrom(_, _, _, _)
tsFrom(b, input, t, flags) ==
    IF Len(input) = 0 THEN b
    ELSE IF Len(input) = 1 THEN tt(b, b.r, <<input[1]>>, t, flags)
    ELSE tsFrom(tt(b, b.r, <<input[1]>>, NoToken, {}), Tail(input), t, flags)

\* state.ts(input, t, flags)
ts(b, s, input, t, flags) == tsFrom([b EXCEPT !.r = s], input, t, flags)

----------------------------------------------------------------------------
(* scanner.mjs: fastts and decodeTlds *)

\* A chain State without its class edges
chainState_noJr(t, jr) == State(t)

\* next = new State(t); next.jr = jr.slice()
chainState(t, jr) == [State(t) EXCEPT !.jr = jr]

\* One turn of the loop with a new State made even where an edge exists
fasttsStep_noReuse(b, char, defaultt, jr) == allocEdge(b, b.r, char, chainState(defaultt, jr))

\* One turn of the loop of fastts, state being b.r: follow the edge on char or
\* make it
fasttsStep(b, char, defaultt, jr) ==
    IF char \in DOMAIN b.h[b.r].j
    THEN [b EXCEPT !.r = b.h[b.r].j[char]]
    ELSE allocEdge(b, b.r, char, chainState(defaultt, jr))

\* fastts from the State b.r on
RECURSIVE fasttsFrom(_, _, _, _, _)
fasttsFrom(b, input, t, defaultt, jr) ==
    IF Len(input) <= 1 THEN allocEdge(b, b.r, <<input[1]>>, chainState(t, jr))
    ELSE fasttsFrom(fasttsStep(b, <<input[1]>>, defaultt, jr), Tail(input), t, defaultt, jr)

\* fastts(state, input, t, defaultt, jr): follow or make the chain of input's
\* characters but the last, then put a new State tagged t on the last one
fastts(b, s, input, t, defaultt, jr) == fasttsFrom([b EXCEPT !.r = s], input, t, defaultt, jr)

isDigit(u) == u >= 48 /\ u <= 57

\* The number of digits of encoded from index i on (the inner while of decodeTlds)
RECURSIVE popDigitCount(_, _)
popDigitCount(encoded, i) ==
    IF i < Len(encoded) /\ isDigit(encoded[i + 1])
    THEN 1 + popDigitCount(encoded, i + 1) ELSE 0

\* parseInt(digits, 10)
RECURSIVE parseInt(_)
parseInt(digits) ==
    IF digits = <<>> THEN 0
    ELSE 10 * parseInt(SubSeq(digits, 1, Len(digits) - 1)) + (digits[Len(digits)] - 48)

\* pop, stack.pop() called once however large n is
pop_once(stack, n) == SubSeq(stack, 1, Max(Len(stack) - Min(n, 1), 0))

\* stack.pop(), n times
pop(stack, n) == SubSeq(stack, 1, Max(Len(stack) - n, 0))

\* The digits without their leading zeros
RECURSIVE significant(_)
significant(digits) ==
    IF digits # <<>> /\ Head(digits) = 48 THEN significant(Tail(digits)) ELSE digits

\* a > b for two numbers written with the same number of digits
RECURSIVE digitsGreater(_, _)
digitsGreater(a, b) ==
    IF a = <<>> THEN FALSE
    ELSE IF Head(a) # Head(b) THEN Head(a) > Head(b)
    ELSE digitsGreater(Tail(a), Tail(b))

\* popCount is a Number, an IEEE 754 double: 9007199254740994 (2^53 + 2) is
\* the largest value parseInt can return from which popCount-- still gets to
\* a smaller double; from 2^53 + 4 on, popCount - 1 rounds back to popCount
LargestCountedDown == <<57, 48, 48, 55, 49, 57, 57, 50, 53, 52, 55, 52, 48, 57, 57, 52>>

\* for (let popCount = parseInt(digits, 10); popCount > 0; popCount--) ends
countsDown(digits) ==
    \/ Len(significant(digits)) < Len(LargestCountedDown)
    \/ /\ Len(significant(digits)) = Len(LargestCountedDown)
       /\ ~digitsGreater(significant(digits), LargestCountedDown)

\* More than any stack holds
ManyPops == 1000000000

\* The times stack.pop() is called, counted up to ManyPops
popCountOf(digits) ==
    IF Len(significant(digits)) > 9 THEN ManyPops ELSE parseInt(significant(digits))

RECURSIVE decodeTldsFrom(_, _, _, _)
decodeTldsFrom(encoded, i, stack, words) ==
    IF i >= Len(encoded) THEN words
    ELSE IF popDigitCount(encoded, i) > 0
    THEN decodeTldsFrom(encoded, i + popDigitCount(encoded, i),
                        pop(stack, popCountOf(slice(encoded, i, i + popDigitCount(encoded, i)))),
                        Append(words, stack))
    ELSE decodeTldsFrom(encoded, i + 1, Append(stack, encoded[i + 1]), words)

decodeTlds(encoded) == decodeTldsFrom(encoded, 0, <<>>, <<>>)

\* Every for loop decodeTlds gets to, from index i on, ends
RECURSIVE decodeTldsEnds(_, _)
decodeTldsEnds(encoded, i) ==
    IF i >= Len(encoded) THEN TRUE
    ELSE IF popDigitCount(encoded, i) > 0
    THEN /\ countsDown(slice(encoded, i, i + popDigitCount(encoded, i)))
         /\ decodeTldsEnds(encoded, i + popDigitCount(encoded, i))
    ELSE decodeTldsEnds(encoded, i + 1)

\* tlds.mjs: the encoded lists, cut down to a few words
\* "co0m3ht2": co, com, ht
encodedTlds == <<99, 111, 48, 109, 51, 104, 116, 50>>
\* U+0440 U+0443 U+0441 "2" U+0444 "2": the two words U+0440 U+0443 U+0441 and U+0440 U+0444
encodedUtlds == <<1088, 1091, 1089, 50, 1092, 50>>

----------------------------------------------------------------------------
(* scanner.mjs: init *)

\* The words of lines 172-177 and 201
Scheme_file == <<102, 105, 108, 101>>
Scheme_mailto == <<109, 97, 105, 108, 116, 111>>
Scheme_http == <<104, 116, 116, 112>>
Scheme_https == <<104, 116, 116, 112, 115>>
Scheme_ftp == <<102, 116, 112>>
Scheme_ftps == <<102, 116, 112, 115>>
Localhost == <<108, 111, 99, 97, 108, 104, 111, 115, 116>>

Symbols == <<
    <<39, "APOSTROPHE">>, <<123, "OPENBRACE">>, <<125, "CLOSEBRACE">>,
    <<91, "OPENBRACKET">>, <<93, "CLOSEBRACKET">>, <<40, "OPENPAREN">>,
    <<41, "CLOSEPAREN">>, <<60, "OPENANGLEBRACKET">>, <<62, "CLOSEANGLEBRACKET">>,
    <<65288, "FULLWIDTHLEFTPAREN">>, <<65289, "FULLWIDTHRIGHTPAREN">>,
    <<12300, "LEFTCORNERBRACKET">>, <<12301, "RIGHTCORNERBRACKET">>,
    <<12302, "LEFTWHITECORNERBRACKET">>, <<12303, "RIGHTWHITECORNERBRACKET">>,
    <<65308, "FULLWIDTHLESSTHAN">>, <<65310, "FULLWIDTHGREATERTHAN">>,
    <<38, "AMPERSAND">>, <<42, "ASTERISK">>, <<64, "AT">>, <<96, "BACKTICK">>,
    <<94, "CARET">>, <<58, "COLON">>, <<44, "COMMA">>, <<36, "DOLLAR">>,
    <<46, "DOT">>, <<61, "EQUALS">>, <<33, "EXCLAMATION">>, <<45, "HYPHEN">>,
    <<37, "PERCENT">>, <<124, "PIPE">>, <<43, "PLUS">>, <<35, "POUND">>,
    <<63, "QUERY">>, <<34, "QUOTE">>, <<47, "SLASH">>, <<59, "SEMI">>,
    <<126, "TILDE">>, <<95, "UNDERSCORE">>, <<92, "BACKSLASH">>,
    <<12539, "FULLWIDTHMIDDLEDOT">> >>

\* const name = the State the last call returned
named(b, name) == IF name = "" THEN b ELSE [b EXCEPT ![name] = b.r]

\* newStart, the Start of the machine built first used again
newStart_shared(h) ==
    IF h = <<>> THEN named(alloc(Builder(h), State(NoToken)), "Start")
    ELSE [Builder(h) EXCEPT !.r = 1, !.Start = 1]

\* const Start = new State()
newStart(h) == named(alloc(Builder(h), State(NoToken)), "Start")

\* The statements of init on the States it has named:
\* const name = tt(from, input, t, flags)
TT(from, input, t, flags, name) ==
    [op |-> "tt", from |-> from, input |-> input, re |-> "", t |-> t, flags |-> flags,
     to |-> "", name |-> name]
\* tt(from, input, to)
TTto(from, input, to) ==
    [op |-> "ttTo", from |-> from, input |-> input, re |-> "", t |-> NoToken, flags |-> {},
     to |-> to, name |-> ""]
\* const name = tr(from, re, t, flags)
TR(from, re, t, flags, name) ==
    [op |-> "tr", from |-> from, input |-> <<>>, re |-> re, t |-> t, flags |-> flags,
     to |-> "", name |-> name]
\* tr(from, re, to)
TRto(from, re, to) ==
    [op |-> "trTo", from |-> from, input |-> <<>>, re |-> re, t |-> NoToken, flags |-> {},
     to |-> to, name |-> ""]

\* One statement
exec(b, st) ==
    CASE st.op = "tt" -> named(tt(b, b[st.from], st.input, st.t, st.flags), st.name)
      [] st.op = "ttTo" -> ttState(b, b[st.from], st.input, b[st.to])
      [] st.op = "tr" -> named(tr(b, b[st.from], st.re, st.t, st.flags), st.name)
      [] st.op = "trTo" -> trState(b, b[st.from], st.re, b[st.to])

\* The statements of a listing in order, from the i-th on
RECURSIVE execFrom(_, _, _)
execFrom(b, listing, i) ==
    IF i > Len(listing) \/ ~built(b) THEN b
    ELSE execFrom(exec(b, listing[i]), listing, i + 1)

\* tt(Start, c, tk.X) for the symbols
initSymbols(b) ==
    execFrom(b, [i \in 1..Len(Symbols) |->
                    TT("Start", <<Symbols[i][1]>>, tk(Symbols[i][2]), {}, "")], 1)

\* Lines 100-119: Num, Asciinumeric, Alphanumeric, Word, UWord and their class
\* edges
Words == <<
    TR("Start", "DIGIT", tk("NUM"), {"numeric"}, "Num"),
    TRto("Num", "DIGIT", "Num"),
    TR("Num", "ASCII_LETTER", tk("ASCIINUMERICAL"), {"asciinumeric"}, "Asciinumeric"),
    TR("Num", "LETTER", tk("ALPHANUMERICAL"), {"alphanumeric"}, "Alphanumeric"),
    TR("Start", "ASCII_LETTER", tk("WORD"), {"ascii"}, "Word"),
    TRto("Word", "DIGIT", "Asciinumeric"),
    TRto("Word", "ASCII_LETTER", "Word"),
    TRto("Asciinumeric", "DIGIT", "Asciinumeric"),
    TRto("Asciinumeric", "ASCII_LETTER", "Asciinumeric"),
    TR("Start", "LETTER", tk("UWORD"), {"alpha"}, "UWord"),
    TR("UWord", "ASCII_LETTER", NoToken, {}, ""),
    TRto("UWord", "DIGIT", "Alphanumeric"),
    TRto("UWord", "LETTER", "UWord"),
    TRto("Alphanumeric", "DIGIT", "Alphanumeric"),
    TR("Alphanumeric", "ASCII_LETTER", NoToken, {}, ""),
    TRto("Alphanumeric", "LETTER", "Alphanumeric") >>

initWords(b) == execFrom(b, Words, 1)

\* Lines 124-134: Nl, Cr, Ws and their edges
Whitespace == <<
    TT("Start", <<LF>>, tk("NL"), {"whitespace"}, "Nl"),
    TT("Start", <<CR>>, tk("WS"), {"whitespace"}, "Cr"),
    TR("Start", "SPACE", tk("WS"), {"whitespace"}, "Ws"),
    TTto("Start", <<OBJECT_REPLACEMENT>>, "Ws"),
    TTto("Cr", <<LF>>, "Nl"),
    TTto("Cr", <<OBJECT_REPLACEMENT>>, "Ws"),
    TRto("Cr", "SPACE", "Ws"),
    TT("Ws", <<CR>>, NoToken, {}, ""),
    TT("Ws", <<LF>>, NoToken, {}, ""),
    TRto("Ws", "SPACE", "Ws"),
    TTto("Ws", <<OBJECT_REPLACEMENT>>, "Ws") >>

isLfFromWs(st) == st.from = "Ws" /\ st.input = <<LF>>
isNotLfFromWs(st) == ~isLfFromWs(st)

\* initWhitespace without tt(Ws, LF)
initWhitespace_mixing(b) == execFrom(b, SelectSeq(Whitespace, isNotLfFromWs), 1)

initWhitespace(b) == execFrom(b, Whitespace, 1)

\* Lines 138-146: Emoji, EmojiJoiner and their edges
Emoji == <<
    TR("Start", "EMOJI", tk("EMOJI"), {"emoji"}, "Emoji"),
    TT("Emoji", <<35>>, NoToken, {}, ""),
    TRto("Emoji", "EMOJI", "Emoji"),
    TTto("Emoji", <<EMOJI_VARIATION>>, "Emoji"),
    TT("Emoji", <<EMOJI_JOINER>>, NoToken, {}, "EmojiJoiner"),
    TT("EmojiJoiner", <<35>>, NoToken, {}, ""),
    TRto("EmojiJoiner", "EMOJI", "Emoji") >>

isVariationEdge(st) == st.input = <<EMOJI_VARIATION>>
isOtherEdge(st) == ~isVariationEdge(st)

\* initEmoji without the edge on the variation selector
initEmoji_noVariation(b) == execFrom(b, SelectSeq(Emoji, isOtherEdge), 1)

initEmoji(b) == execFrom(b, Emoji, 1)

wordjr(b) == << <<"ASCII_LETTER", b.Word>>, <<"DIGIT", b.Asciinumeric>> >>
uwordjr(b) == << <<"ASCII_LETTER", 0>>, <<"LETTER", b.UWord>>, <<"DIGIT", b.Alphanumeric>> >>

\* for (i...) fastts(Start, words[i], t, defaultt, jr)
RECURSIVE fasttsAll(_, _, _, _, _)
fasttsAll(b, words, t, defaultt, jr) ==
    IF words = <<>> \/ ~built(b) THEN b
    ELSE fasttsAll(fastts(b, b.Start, Head(words), t, defaultt, jr),
                   Tail(words), t, defaultt, jr)

\* Lines 160-167: the top-level domains
initTlds(b, tldWords, utldWords) ==
    grouped(
        grouped(
            fasttsAll(fasttsAll(b, tldWords, tk("TLD"), tk("WORD"), wordjr(b)),
                      utldWords, tk("UTLD"), tk("UWORD"), uwordjr(b)),
            tk("TLD"), {"tld", "ascii"}),
        tk("UTLD"), {"utld", "alpha"})

\* Lines 172-179: file, mailto, http, https, ftp, ftps
initSchemes(b) ==
    grouped(
        grouped(
            fasttsAll(fasttsAll(b, <<Scheme_file, Scheme_mailto>>,
                                tk("SCHEME"), tk("WORD"), wordjr(b)),
                      <<Scheme_http, Scheme_https, Scheme_ftp, Scheme_ftps>>,
                      tk("SLASH_SCHEME"), tk("WORD"), wordjr(b)),
            tk("SCHEME"), {"scheme", "ascii"}),
        tk("SLASH_SCHEME"), {"slashscheme", "ascii"})

\* a > b on strings: by code units, a proper prefix being the smaller
RECURSIVE strGreater(_, _)
strGreater(a, b) ==
    IF a = <<>> THEN FALSE
    ELSE IF b = <<>> THEN TRUE
    ELSE IF a[1] # b[1] THEN a[1] > b[1]
    ELSE strGreater(Tail(a), Tail(b))

\* The place of x in a list sorted with (a, b) => (a[0] > b[0] ? 1 : -1)
RECURSIVE insertScheme(_, _)
insertScheme(x, sorted) ==
    IF sorted = <<>> THEN <<x>>
    ELSE IF strGreater(sorted[1][1], x[1]) THEN <<x>> \o sorted
    ELSE <<sorted[1]>> \o insertScheme(x, Tail(sorted))

\* The sort losing all but the first listed scheme
sortSchemes_first(customSchemes) ==
    IF customSchemes = <<>> THEN <<>> ELSE <<customSchemes[1]>>

\* customSchemes.sort(...)
RECURSIVE sortSchemes(_)
sortSchemes(customSchemes) ==
    IF customSchemes = <<>> THEN <<>>
    ELSE insertScheme(customSchemes[Len(customSchemes)],
                      sortSchemes(SubSeq(customSchemes, 1, Len(customSchemes) - 1)))

\* customSchemeFlags with the letter and digit tests in the wrong order
customSchemeFlags_digitFirst(sch, optionalSlashSlash) ==
    (IF optionalSlashSlash THEN {"scheme"} ELSE {"slashscheme"}) \cup
    (IF 45 \in codeUnits(sch) THEN {"domain"}
     ELSE IF test("DIGIT", sch) THEN {"asciinumeric"}
     ELSE IF ~test("ASCII_LETTER", sch) THEN {"numeric"}
     ELSE {"ascii"})

\* The flags object of a custom scheme
customSchemeFlags(sch, optionalSlashSlash) ==
    (IF optionalSlashSlash THEN {"scheme"} ELSE {"slashscheme"}) \cup
    (IF 45 \in codeUnits(sch) THEN {"domain"}
     ELSE IF ~test("ASCII_LETTER", sch) THEN {"numeric"}
     ELSE IF test("DIGIT", sch) THEN {"asciinumeric"}
     ELSE {"ascii"})

\* The flags object of a custom scheme, kept for inspection
noted(b, sch, flags) == [b EXCEPT !.given = Append(@, <<sch, flags>>)]

\* One turn of the loop over the custom schemes: lines 184-197
registerCustom(b, sch, optionalSlashSlash) ==
    noted(ts(b, b.Start, sch, schemeToken(sch), customSchemeFlags(sch, optionalSlashSlash)),
          sch, customSchemeFlags(sch, optionalSlashSlash))

\* The loop over the sorted custom schemes, from the i-th on
RECURSIVE initCustomFrom(_, _, _)
initCustomFrom(b, sorted, i) ==
    IF i > Len(sorted) \/ ~built(b) THEN b
    ELSE initCustomFrom(registerCustom(b, sorted[i][1], sorted[i][2]), sorted, i + 1)

\* initCustom, the loop over the custom schemes left out
initCustom_none(b, customSchemes) == b

\* Register custom schemes
initCustom(b, customSchemes) == initCustomFrom(b, sortSchemes(customSchemes), 1)

\* ts(Start, 'localhost', tk.LOCALHOST, { ascii: true })
initLocalhost(b) == ts(b, b.Start, Localhost, tk("LOCALHOST"), {"ascii"})

\* initDefault leaving Start.jd unset
initDefault_none(b) == b

setJd(b, s, next) == [b EXCEPT !.h[s].jd = next]

\* Start.jd = new State(tk.SYM)
initDefault(b) == setJd(alloc(b, State(tk("SYM"))), b.Start, Len(b.h) + 1)

\* The p-th part of init
initPart(b, p, customSchemes, tldWords, utldWords) ==
    CASE p = 1 -> initSymbols(b)
      [] p = 2 -> initWords(b)
      [] p = 3 -> initWhitespace(b)
      [] p = 4 -> initEmoji(b)
      [] p = 5 -> initTlds(b, tldWords, utldWords)
      [] p = 6 -> initSchemes(b)
      [] p = 7 -> initCustom(b, customSchemes)
      [] p = 8 -> initLocalhost(b)
      [] p = 9 -> initDefault(b)

\* The parts of init in order, from the p-th on
RECURSIVE initFrom(_, _, _, _, _)
initFrom(b, p, customSchemes, tldWords, utldWords) ==
    IF p > 9 \/ ~built(b) THEN b
    ELSE initFrom(initPart(b, p, customSchemes, tldWords, utldWords), p + 1,
                  customSchemes, tldWords, utldWords)

\* init(customSchemes), with the decoded lists as they are after lines 50-55
init(h, customSchemes, tldWords, utldWords) ==
    initFrom(newStart(h), 1, customSchemes, tldWords, utldWords)

----------------------------------------------------------------------------
(* The client: a script of init() and run() calls *)

initCall(customSchemes) ==
    [op |-> "init", customSchemes |-> customSchemes, scanner |-> 0, str |-> <<>>, from |-> ""]
runCall(scanner, s) ==
    [op |-> "run", customSchemes |-> <<>>, scanner |-> scanner, str |-> s, from |-> ""]
\* The client picks its next calls from the set of call lists named from
\* registerCustomProtocol(scheme, optionalSlashSlash)
registerCall(scheme, optionalSlashSlash) ==
    [op |-> "register", customSchemes |-> <<<<scheme, optionalSlashSlash>>>>, scanner |-> 0,
     str |-> <<>>, from |-> ""]
\* reset()
resetCall ==
    [op |-> "reset", customSchemes |-> <<>>, scanner |-> 0, str |-> <<>>, from |-> ""]
\* tokenize(str)
tokenizeCall(s) ==
    [op |-> "tokenize", customSchemes |-> <<>>, scanner |-> 0, str |-> s, from |-> ""]
\* decodeTlds(encoded)
decodeCall(encoded) ==
    [op |-> "decode", customSchemes |-> <<>>, scanner |-> 0, str |-> encoded, from |-> ""]
\* stringToElements(str, opts, meta), str given by the tokens tokenize returns
\* for it
elementsCall(toks, o) ==
    [op |-> "elements", customSchemes |-> <<>>, scanner |-> 0, str |-> toks, from |-> "",
     opts |-> o]
\* <Linkify options={o}>children</Linkify> rendered by a React build that does
\* (dev) or does not keep a key among an element's props
renderCall(children, o, dev) ==
    [op |-> "render", customSchemes |-> <<>>, scanner |-> 0, str |-> children, from |-> "",
     opts |-> o, dev |-> dev]
chooseFrom(from) ==
    [op |-> "choose", customSchemes |-> <<>>, scanner |-> 0, str |-> <<>>, from |-> from]

\* All strings over alphabet of length at most n
RECURSIVE StringsUpTo(_, _)
StringsUpTo(alphabet, n) ==
    IF n = 0 THEN {<<>>}
    ELSE LET shorter == StringsUpTo(alphabet, n - 1)
         IN  shorter \cup {Append(s, c) : s \in {x \in shorter : Len(x) = n - 1}, c \in alphabet}

\* All concatenations of at most n of the given pieces
RECURSIVE ConcatsUpTo(_, _)
ConcatsUpTo(pieces, n) ==
    IF n = 0 THEN {<<>>}
    ELSE LET shorter == ConcatsUpTo(pieces, n - 1)
         IN  shorter \cup {s \o p : s \in shorter, p \in pieces}

\* The state after the module is loaded, the client about to follow script s
Loaded(s) ==
    /\ tlds = [isNull |-> TRUE, v |-> <<>>]
    /\ utlds = [isNull |-> TRUE, v |-> <<>>]
    /\ heap = <<>>
    /\ scanners = <<>>
    /\ script = s
    /\ results = <<>>
    /\ pc = "idle"
    /\ start = 0
    /\ str = <<>>
    /\ iterable = <<>>
    /\ tokens = <<>>
    /\ cursor = 0
    /\ charCursor = 0
    /\ state = 0
    /\ tokenLength = 0
    /\ latestAccepting = 0
    /\ sinceAccepts = 0
    /\ charsSinceAccepts = 0
    /\ INIT = [scanner |-> 0, customSchemes |-> <<>>, dirty |-> FALSE]
    /\ thrown = ""
    /\ opts = [nl2br |-> "false", validate |-> [url |-> "true", email |-> "true"],
               render |-> "element"]
    /\ meta = [elementId |-> 0]
    /\ mtokens = <<>>
    /\ elements = <<>>
    /\ iToken = 0

----------------------------------------------------------------------------
(* Inputs *)

\* The longest string of the general specification
MaxLen == 3

\* Custom scheme lists: "ab" with "a-b", and none
SchemesAB == << <<<<97, 98>>, FALSE>>, <<<<97, 45, 98>>, TRUE>> >>

\* c o m 1 - space CR LF NUL U+0440 # ZWJ and the halves of U+1F600
MixedAlphabet == {99, 111, 109, 49, 45, 32, 13, 10, 0, 1088, 35, 8205, 55357, 56832}

\* One run of the first machine on each string
MixedRuns == {<<runCall(1, s)>> : s \in StringsUpTo(MixedAlphabet, MaxLen)}

\* The longest string of the case specification
MaxLenCase == 3

\* c o m C O M 1 space and U+00C9
CaseAlphabet == {99, 111, 109, 67, 79, 77, 49, 32, 201}

\* Each string, then the string with a-z replaced by A-Z
CaseRuns == {<<runCall(1, s), runCall(1, upperAZ(s))>> : s \in StringsUpTo(CaseAlphabet, MaxLenCase)}

\* The elements of a list
Range(list) == {list[i] : i \in 1..Len(list)}

\* All lists of at most n different elements of pool
RECURSIVE ListsUpTo(_, _)
ListsUpTo(pool, n) ==
    IF n = 0 THEN {<<>>}
    ELSE LET shorter == ListsUpTo(pool, n - 1)
         IN  shorter \cup {Append(l, x) : l \in {y \in shorter : Len(y) = n - 1}, x \in pool}

distinctLists(lists) == {l \in lists : \A i, j \in 1..Len(l) : l[i][1] = l[j][1] => i = j}

\* The most custom schemes given to one init
MaxSchemes == 2

\* The words init registers itself
SchemeWords == {Scheme_file, Scheme_mailto}
SlashSchemeWords == {Scheme_http, Scheme_https, Scheme_ftp, Scheme_ftps}

\* Custom schemes that share letters with each other and with init's own words:
\* ab, abc, a-b, co, comx, htt, http, loc, localhost
KeywordPool == {
    <<<<97, 98>>, FALSE>>, <<<<97, 98, 99>>, TRUE>>, <<<<97, 45, 98>>, TRUE>>,
    <<<<99, 111>>, FALSE>>, <<<<99, 111, 109, 120>>, FALSE>>,
    <<<<104, 116, 116>>, TRUE>>, <<<<104, 116, 116, 112>>, TRUE>>,
    <<<<108, 111, 99>>, FALSE>>, <<Localhost, TRUE>> }

KeywordSchemeLists == distinctLists(ListsUpTo(KeywordPool, MaxSchemes))

\* The custom schemes the i-th machine was built with
customWords(i) == {scanners[i].customSchemes[k][1] : k \in 1..Len(scanners[i].customSchemes)}

\* Every word registered in the i-th machine
keywordsOf(i) ==
    Range(tlds.v) \cup Range(utlds.v) \cup SchemeWords \cup SlashSchemeWords
        \cup {Localhost} \cup customWords(i)

\* One run of the first machine on each of its words
KeywordRuns == {<<runCall(1, w)>> : w \in keywordsOf(1)}

\* The most characters put after a prefix of a registered word
MaxSuffix == 2

\* x 1 X
SuffixAlphabet == {120, 49, 88}

\* Custom schemes of letters and digits: ab, a1, 12
WordPool == {<<<<97, 98>>, FALSE>>, <<<<97, 49>>, TRUE>>, <<<<49, 50>>, FALSE>>}

WordSchemeLists == distinctLists(ListsUpTo(WordPool, MaxSchemes))

isAsciiLetter(u) == (u >= 65 /\ u <= 90) \/ (u >= 97 /\ u <= 122)

isAlnum(w) == \A k \in 1..Len(w) : isAsciiLetter(w[k]) \/ isDigit(w[k])

prefixesOf(words) == UNION {{SubSeq(w, 1, n) : n \in 0..Len(w)} : w \in words}

\* One run of the first machine on each prefix of each of its words of letters
\* and digits, followed by a few more letters and digits
WordRuns ==
    {<<runCall(1, p \o x)>> :
        p \in prefixesOf({w \in keywordsOf(1) : isAlnum(w)}),
        x \in StringsUpTo(SuffixAlphabet, MaxSuffix)}

\* The most pieces joined into one string of the emoji specification
MaxPieces == 4

\* U+1F600 as a surrogate pair, U+2764, # 1 *, the variation selector, the joiner
EmojiPieces == {<<55357, 56832>>, <<10084>>, <<35>>, <<49>>, <<42>>,
                <<EMOJI_VARIATION>>, <<EMOJI_JOINER>>}

EmojiRuns == {<<runCall(1, s)>> : s \in ConcatsUpTo(EmojiPieces, MaxPieces)}

\* Custom schemes of every shape, with and without the optional ://
\* ab, a1, 12, a-b, 1-2
FlagPool == {<<<<97, 98>>, TRUE>>, <<<<97, 98>>, FALSE>>,
             <<<<97, 49>>, TRUE>>, <<<<97, 49>>, FALSE>>,
             <<<<49, 50>>, TRUE>>, <<<<49, 50>>, FALSE>>,
             <<<<97, 45, 98>>, TRUE>>, <<<<97, 45, 98>>, FALSE>>,
             <<<<49, 45, 50>>, TRUE>>, <<<<49, 45, 50>>, FALSE>>}

FlagSchemeLists == distinctLists(ListsUpTo(FlagPool, MaxSchemes))

\* Custom schemes one of which begins another: ab, abc, a-b
OrderPool == {<<<<97, 98>>, FALSE>>, <<<<97, 98, 99>>, TRUE>>, <<<<97, 45, 98>>, TRUE>>}

\* Every list of different schemes with every reordering of it
OrderedPairs ==
    LET lists == distinctLists(ListsUpTo(OrderPool, MaxSchemes))
    IN  {pair \in lists \X lists : Len(pair[1]) = Len(pair[2]) /\ Range(pair[1]) = Range(pair[2])}

\* The longest string of the order specification
MaxLenOrder == 3

\* a b c -
OrderAlphabet == {97, 98, 99, 45}

\* The same string run on the first and on the second machine
OrderRuns == {<<runCall(1, s), runCall(2, s)>> : s \in StringsUpTo(OrderAlphabet, MaxLenOrder)}

\* The longest string of the repeated-scan specification
MaxLenTwice == 3

\* c o m a b - 1 LF
TwiceAlphabet == {99, 111, 109, 97, 98, 45, 49, 10}

\* The same string run on the first machine, on the second, and on the first again
TwiceRuns ==
    {<<runCall(1, s), runCall(2, s), runCall(1, s)>> : s \in StringsUpTo(TwiceAlphabet, MaxLenTwice)}

\* The longest string of the rebuild specification
MaxLenFrame == 3

\* a b c - 1 m
FrameAlphabet == {97, 98, 99, 45, 49, 109}

\* Custom scheme lists given to the later init: none, ab with a-b, abc with 1m
FrameSchemeLists ==
    {<<>>, SchemesAB, << <<<<97, 98, 99>>, TRUE>>, <<<<49, 109>>, FALSE>> >>}

\* A string run on the first machine, another init, the string run on the
\* first machine again
FrameRuns ==
    {<<runCall(1, s), initCall(cs), runCall(1, s)>> :
        s \in StringsUpTo(FrameAlphabet, MaxLenFrame), cs \in FrameSchemeLists}

\* The longest string of the surrogate specification
MaxLenSplit == 3

\* a, and the code units at and next to the ends of the two surrogate ranges:
\* U+D7FF U+D800 U+DBFF U+DC00 U+DFFF U+E000
SplitAlphabet == {97, 55295, 55296, 56319, 56320, 57343, 57344}

SplitRuns == {<<runCall(1, s)>> : s \in StringsUpTo(SplitAlphabet, MaxLenSplit)}

\* The most pieces joined into one encoded string
MaxPiecesDecode == 5

\* a b 0 1 2 and a run of twenty 9s
DecodePieces == {<<97>>, <<98>>, <<48>>, <<49>>, <<50>>,
                 <<57, 57, 57, 57, 57, 57, 57, 57, 57, 57, 57, 57, 57, 57, 57, 57, 57, 57, 57, 57>>}

DecodeCalls == {<<decodeCall(s)>> : s \in ConcatsUpTo(DecodePieces, MaxPiecesDecode)}

\* The most pieces joined into one text
MaxPiecesText == 4

\* ab :// : x space
TextPieces == {<<97, 98>>, <<58, 47, 47>>, <<58>>, <<120>>, <<32>>}

Texts == ConcatsUpTo(TextPieces, MaxPiecesText)

\* A text tokenized, ab registered with the :// optional or required, the text
\* tokenized again
RegisterCalls ==
    {<<tokenizeCall(t), registerCall(<<97, 98>>, optional), tokenizeCall(t)>> :
        t \in Texts, optional \in BOOLEAN}

\* The most pieces joined into one text of the reset specification
MaxPiecesReset == 3

\* ab : x
ResetPieces == {<<97, 98>>, <<58>>, <<120>>}

\* The most calls made between the first tokenize and reset
MaxPrior == 2

\* register ab, register abx, tokenize "ab:x"
PriorCalls == {registerCall(<<97, 98>>, TRUE), registerCall(<<97, 98, 120>>, FALSE),
               tokenizeCall(<<97, 98, 58, 120>>)}

\* All lists of at most n calls
RECURSIVE CallsUpTo(_, _)
CallsUpTo(calls, n) ==
    IF n = 0 THEN {<<>>}
    ELSE LET shorter == CallsUpTo(calls, n - 1)
         IN  shorter \cup {Append(l, c) : l \in shorter, c \in calls}

\* A text tokenized in the fresh process, some calls, reset, the text
\* tokenized again
ResetCalls ==
    {<<tokenizeCall(t)>> \o prior \o <<resetCall, tokenizeCall(t)>> :
        t \in ConcatsUpTo(ResetPieces, MaxPiecesReset),
        prior \in CallsUpTo(PriorCalls, MaxPrior)}

\* The most pieces joined into one text of the invalid-scheme specification
MaxPiecesInvalid == 2

\* a 1b ab :x
InvalidPieces == {<<97>>, <<49, 98>>, <<97, 98>>, <<58, 120>>}

\* Schemes that break the syntax rules: "a" is too short, "1b" and "-a" do not
\* start with a letter, "a_b" and "a b" hold a character that is neither a
\* letter, a digit nor a hyphen
BadSchemes == {<<97>>, <<49, 98>>, <<45, 97>>, <<97, 95, 98>>, <<97, 32, 98>>}

\* The calls made before the invalid registration, each with the valid
\* registrations among them
PriorStates ==
    {[calls |-> <<tokenizeCall(t)>>, valid |-> <<>>] : t \in {<<97, 58, 120>>}} \cup
    {[calls |-> c, valid |-> <<registerCall(<<97, 98>>, TRUE)>>] :
        c \in {<<registerCall(<<97, 98>>, TRUE)>>,
               <<registerCall(<<97, 98>>, TRUE), tokenizeCall(<<97, 98, 58, 120>>)>>,
               <<tokenizeCall(<<97, 98, 58, 120>>), registerCall(<<97, 98>>, TRUE)>>}}

\* Some calls, a registration of an invalid scheme, a text tokenized; then
\* reset, the valid registrations made again and the text tokenized again
InvalidCalls ==
    {p.calls \o <<registerCall(bad, optional), tokenizeCall(t), resetCall>>
             \o p.valid \o <<tokenizeCall(t)>> :
        p \in PriorStates, bad \in BadSchemes, optional \in BOOLEAN,
        t \in ConcatsUpTo(InvalidPieces, MaxPiecesInvalid)}

\* The most tokens tokenize returns in the renderer specification
MaxTokens == 3

\* The tokens tokenize returns: text "a", a newline, the url "b.co", the email
\* address "c@d.co"
MultiTokens ==
    {[t |-> "text", isLink |-> FALSE, v |-> <<97>>],
     [t |-> "nl", isLink |-> FALSE, v |-> <<10>>],
     [t |-> "url", isLink |-> TRUE, v |-> <<98, 46, 99, 111>>],
     [t |-> "email", isLink |-> TRUE, v |-> <<99, 64, 100, 46, 99, 111>>]}

\* What a validate callback does with a token: returns true, returns false,
\* throws
ValidateOutcomes == {"true", "false", "throws"}

\* What a render callback does with a token: returns an element without a key,
\* returns an element with a key, returns null, throws
RenderOutcomes == {"element", "keyed", "null", "throws"}

\* The options: nl2br false, true, 0 or 1, a validate callback for each link
\* type, a render callback
OptionsObjects ==
    [nl2br : {"false", "true", "0", "1"},
     validate : [url : ValidateOutcomes, email : ValidateOutcomes],
     render : RenderOutcomes]

ElementsCalls ==
    {<<elementsCall(toks, o)>> : toks \in StringsUpTo(MultiTokens, MaxTokens),
                                 o \in OptionsObjects}

\* The longest string of the termination specification
MaxLenEnds == 3

\* a - LF, the joiner and the halves of U+1F600
EndsAlphabet == {97, 45, 10, 8205, 55357, 56832}

EndsRuns == {<<runCall(1, s)>> : s \in StringsUpTo(EndsAlphabet, MaxLenEnds)}

\* The longest string of the letters specification
MaxLenLetters == 3

\* U+0440 and U+0444, which begin and end the top-level domain U+0440 U+0444,
\* U+0436, which begins none, c, C, 1 and hyphen
LettersAlphabet == {1088, 1092, 1078, 99, 67, 49, 45}

LettersRuns == {<<runCall(1, s)>> : s \in StringsUpTo(LettersAlphabet, MaxLenLetters)}

\* The most characters after the start of a link
MaxTail == 3

\* ( ) ] . x and space
TailAlphabet == {40, 41, 93, 46, 120, 32}

\* a.co/ ab: and x@a.co
LinkStarts == {<<97, 46, 99, 111, 47>>, <<97, 98, 58>>, <<120, 64, 97, 46, 99, 111>>}

LinkTexts ==
    {link \o tail : link \in LinkStarts, tail \in StringsUpTo(TailAlphabet, MaxTail)}

\* ab registered with the :// optional, then a text tokenized
LinkCalls == {<<registerCall(<<97, 98>>, TRUE), tokenizeCall(t)>> : t \in LinkTexts}

\* The most children given to one Linkify component
MaxChildren == 2

\* A string child, given by the tokens tokenize returns for it
stringChild(toks) == [kind |-> "string", type |-> "", children |-> toks]

\* An element child
elementChild(type, children) == [kind |-> "element", type |-> type, children |-> children]

\* A child that is neither: a number, null
otherChild == [kind |-> "other", type |-> "", children |-> <<>>]

TextToken == [t |-> "text", isLink |-> FALSE, v |-> <<97>>]
NlToken == [t |-> "nl", isLink |-> FALSE, v |-> <<10>>]
UrlToken == [t |-> "url", isLink |-> TRUE, v |-> <<98, 46, 99, 111>>]

\* "b.co", and "a", a newline and "b.co"
ChildStrings == {stringChild(<<UrlToken>>), stringChild(<<TextToken, NlToken, UrlToken>>)}

\* <b/>, <b>string</b>, <script>string</script>, <b><i>string</i>string</b>
ChildElements ==
    {elementChild("b", <<>>)}
    \cup {elementChild(type, <<s>>) : type \in {"b", "script"}, s \in ChildStrings}
    \cup {elementChild("b", <<elementChild("i", <<s>>), s>>) : s \in ChildStrings}

\* The options of a Linkify component without a render option
LinkifyOptions ==
    [nl2br : {"false", "true"},
     validate : [url : {"true", "false"}, email : {"true"}],
     render : {"default"},
     ignoreTags : {{}, {"SCRIPT"}}]

RenderCalls ==
    {<<renderCall(children, o, dev)>> :
        children \in StringsUpTo(ChildStrings \cup ChildElements \cup {otherChild}, MaxChildren),
        o \in LinkifyOptions, dev \in BOOLEAN}

Inputs(from) ==
    CASE from = "mixed" -> MixedRuns
      [] from = "render" -> RenderCalls
      [] from = "links" -> LinkCalls
      [] from = "letters" -> LettersRuns
      [] from = "ends" -> EndsRuns
      [] from = "react" -> ElementsCalls
      [] from = "invalid" -> InvalidCalls
      [] from = "reset" -> ResetCalls
      [] from = "register" -> RegisterCalls
      [] from = "decode" -> DecodeCalls
      [] from = "split" -> SplitRuns
      [] from = "frame" -> FrameRuns
      [] from = "twice" -> TwiceRuns
      [] from = "order" -> OrderRuns
      [] from = "emoji" -> EmojiRuns
      [] from = "case" -> CaseRuns
      [] from = "keywords" -> KeywordRuns
      [] from = "words" -> WordRuns
      [] OTHER -> {}

----------------------------------------------------------------------------
(* Actions *)

\* init(customSchemes): decode the lists on first use, build a new machine
Init_return(b, customSchemes, tldWords, utldWords) ==
    /\ tlds' = [isNull |-> FALSE, v |-> tldWords]
    /\ utlds' = [isNull |-> FALSE, v |-> utldWords]
    /\ heap' = b.h
    /\ scanners' = Append(scanners, [start |-> b.Start, groups |-> b.g, given |-> b.given,
                                     customSchemes |-> customSchemes])

\* decoded, a list that was decoded before taken to be empty
decoded_onlyOnce(cache, encoded) == IF cache.isNull THEN decodeTlds(encoded) ELSE <<>>

\* if (tlds == null) tlds = decodeTlds(encodedTlds)
decoded(cache, encoded) == IF cache.isNull THEN decodeTlds(encoded) ELSE cache.v

Init_call ==
    /\ pc = "idle"
    /\ script # <<>>
    /\ Head(script).op = "init"
    /\ Init_return(init(heap, Head(script).customSchemes,
                        decoded(tlds, encodedTlds), decoded(utlds, encodedUtlds)),
                   Head(script).customSchemes,
                   decoded(tlds, encodedTlds), decoded(utlds, encodedUtlds))
    /\ script' = Tail(script)
    /\ UNCHANGED <<results, pc, runVars>>
    /\ UNCHANGED outerVars

\* The client decides what to scan
Client_choose ==
    /\ pc = "idle"
    /\ script # <<>>
    /\ Head(script).op = "choose"
    /\ \E calls \in Inputs(Head(script).from) : script' = calls \o Tail(script)
    /\ UNCHANGED <<tlds, utlds, heap, scanners, results, pc, runVars>>
    /\ UNCHANGED outerVars

\* run(start, str): lines 222-231
Run_call ==
    /\ pc = "idle"
    /\ script # <<>>
    /\ Head(script).op = "run"
    /\ start' = scanners[Head(script).scanner].start
    /\ str' = Head(script).str
    /\ iterable' = stringToArray(lowerAZ(Head(script).str))
    /\ tokens' = <<>>
    /\ cursor' = 0
    /\ charCursor' = 0
    /\ pc' = "outer"
    /\ script' = Tail(script)
    /\ UNCHANGED <<tlds, utlds, heap, scanners, results, state, tokenLength,
                   latestAccepting, sinceAccepts, charsSinceAccepts>>
    /\ UNCHANGED outerVars

charCount == Len(iterable)

\* The outer while is entered: lines 234-240
Run_outer ==
    /\ pc = "outer"
    /\ charCursor < charCount
    /\ state' = start
    /\ tokenLength' = 0
    /\ latestAccepting' = 0
    /\ sinceAccepts' = -1
    /\ charsSinceAccepts' = -1
    /\ pc' = "inner"
    /\ UNCHANGED <<tlds, utlds, heap, scanners, script, results, start, str, iterable,
                   tokens, cursor, charCursor>>
    /\ UNCHANGED outerVars

\* The outer while is left: return tokens
Run_return ==
    /\ pc = "outer"
    /\ ~(charCursor < charCount)
    /\ results' = Append(results, [start |-> start, str |-> str, tokens |-> tokens])
    /\ pc' = "idle"
    /\ UNCHANGED <<tlds, utlds, heap, scanners, script, runVars>>
    /\ UNCHANGED outerVars

\* The condition of the inner while
canStep == charCursor < charCount /\ go(heap, state, iterable[charCursor + 1]) # 0

\* sinceAcceptsNext counting nothing
sinceAcceptsNext_stuck(since, n) == since

\* sinceAcceptsNext counting every step twice
sinceAcceptsNext_twice(since, n) == IF since >= 0 THEN since + n + n ELSE since

\* sinceAccepts after a step into a State that does not accept
sinceAcceptsNext(since, n) == IF since >= 0 THEN since + n ELSE since

\* One turn of the inner while: lines 242-258
Run_inner ==
    /\ pc = "inner"
    /\ canStep
    /\ LET char == iterable[charCursor + 1]
           nextState == go(heap, state, char)
       IN  /\ state' = nextState
           /\ IF accepts(heap[nextState])
              THEN /\ sinceAccepts' = 0
                   /\ charsSinceAccepts' = 0
                   /\ latestAccepting' = nextState
              ELSE /\ sinceAccepts' = sinceAcceptsNext(sinceAccepts, Len(char))
                   /\ charsSinceAccepts' = sinceAcceptsNext(charsSinceAccepts, 1)
                   /\ UNCHANGED latestAccepting
           /\ tokenLength' = tokenLength + Len(char)
           /\ cursor' = cursor + Len(char)
           /\ charCursor' = charCursor + 1
    /\ UNCHANGED <<tlds, utlds, heap, scanners, script, results, pc, start, str,
                   iterable, tokens>>
    /\ UNCHANGED outerVars

\* rollBack, the token's length left as it is
rollBack_keepLength(c, cc, len, since, chars) ==
    [cursor |-> c - since, charCursor |-> cc - chars, tokenLength |-> len]

\* rollBack, charCursor left where the inner while stopped
rollBack_keepChars(c, cc, len, since, chars) ==
    [cursor |-> c - since, charCursor |-> cc, tokenLength |-> len - since]

\* Roll back to the latest accepting state: lines 261-263
rollBack(c, cc, len, since, chars) ==
    [cursor |-> c - since, charCursor |-> cc - chars, tokenLength |-> len - since]

\* The inner while is left: roll back and push the token, lines 260-271;
\* reading latestAccepting.t of null throws
Run_push ==
    /\ pc = "inner"
    /\ ~canStep
    /\ LET rb == rollBack(cursor, charCursor, tokenLength, sinceAccepts, charsSinceAccepts)
       IN  /\ cursor' = rb.cursor
           /\ charCursor' = rb.charCursor
           /\ tokenLength' = rb.tokenLength
           /\ IF latestAccepting = 0
              THEN /\ pc' = "threw"
                   /\ UNCHANGED tokens
              ELSE /\ pc' = "outer"
                   /\ tokens' = Append(tokens,
                          [t |-> heap[latestAccepting].t,
                           v |-> slice(str, rb.cursor - rb.tokenLength, rb.cursor),
                           s |-> rb.cursor - rb.tokenLength,
                           e |-> rb.cursor])
    /\ UNCHANGED <<tlds, utlds, heap, scanners, script, results, start, str, iterable,
                   state, latestAccepting, sinceAccepts, charsSinceAccepts>>
    /\ UNCHANGED outerVars

\* decodeTlds(encoded) called by itself: it returns the words, or stays in a
\* for loop whose popCount never gets to 0
Decode_call ==
    /\ pc = "idle"
    /\ script # <<>>
    /\ Head(script).op = "decode"
    /\ IF decodeTldsEnds(Head(script).str, 0)
       THEN /\ results' = Append(results, [start |-> 0, str |-> Head(script).str,
                                           tokens |-> decodeTlds(Head(script).str)])
            /\ script' = Tail(script)
            /\ pc' = "idle"
       ELSE /\ pc' = "popping"
            /\ UNCHANGED <<results, script>>
    /\ UNCHANGED <<tlds, utlds, heap, scanners, runVars>>
    /\ UNCHANGED outerVars

NextDecode == Client_choose \/ Decode_call

----------------------------------------------------------------------------
(* linkify: registerCustomProtocol, reset, tokenize *)

\* No machine cached, no custom scheme
FreshINIT == [scanner |-> 0, customSchemes |-> <<>>, dirty |-> FALSE]

\* validScheme taking any string
validScheme_any(scheme) == TRUE

\* ASCII letters and digits with optional hyphens, the first character an
\* ASCII letter, at least 2 characters
validScheme(scheme) ==
    /\ Len(scheme) >= 2
    /\ isAsciiLetter(scheme[1])
    /\ \A k \in 1..Len(scheme) : isAsciiLetter(scheme[k]) \/ isDigit(scheme[k]) \/ scheme[k] = 45

isRegistered(I, scheme) == \E k \in 1..Len(I.customSchemes) : I.customSchemes[k][1] = scheme

\* The scheme joins the list and the cached machine is marked dirty;
\* registering a scheme again changes nothing
registered(I, scheme, optionalSlashSlash) ==
    IF isRegistered(I, scheme) THEN I
    ELSE [I EXCEPT !.customSchemes = Append(@, <<scheme, optionalSlashSlash>>), !.dirty = TRUE]

\* registerCustomProtocol(scheme, optionalSlashSlash)
Register_call ==
    /\ pc = "idle"
    /\ script # <<>>
    /\ Head(script).op = "register"
    /\ IF validScheme(Head(script).customSchemes[1][1])
       THEN /\ INIT' = registered(INIT, Head(script).customSchemes[1][1],
                                  Head(script).customSchemes[1][2])
            /\ thrown' = ""
       ELSE /\ thrown' = "InvalidScheme"
            /\ UNCHANGED INIT
    /\ script' = Tail(script)
    /\ UNCHANGED <<tlds, utlds, heap, scanners, results, pc, runVars>>
    /\ UNCHANGED <<opts, meta, mtokens, elements, iToken>>

\* reset, the custom schemes kept
cleared_keepSchemes(I) == [I EXCEPT !.scanner = 0, !.dirty = FALSE]

\* reset(): the cached machines and the custom schemes are cleared
cleared(I) == FreshINIT

Reset_call ==
    /\ pc = "idle"
    /\ script # <<>>
    /\ Head(script).op = "reset"
    /\ INIT' = cleared(INIT)
    /\ thrown' = ""
    /\ script' = Tail(script)
    /\ UNCHANGED <<tlds, utlds, heap, scanners, results, pc, runVars>>
    /\ UNCHANGED <<opts, meta, mtokens, elements, iToken>>

\* tokenize rebuilds when no machine is cached or the cached one is dirty
needsInit == INIT.scanner = 0 \/ INIT.dirty

\* The machine is built from the custom schemes, which init sorts in place
\* (scanner.mjs:182), and cached
Tokenize_init(b, tldWords, utldWords) ==
    /\ Init_return(b, INIT.customSchemes, tldWords, utldWords)
    /\ INIT' = [scanner |-> Len(scanners) + 1,
                customSchemes |-> sortSchemes(INIT.customSchemes), dirty |-> FALSE]
    /\ start' = b.Start

\* tokenize(str): build the machine if needed, then run it on str
Tokenize_call ==
    /\ pc = "idle"
    /\ script # <<>>
    /\ Head(script).op = "tokenize"
    /\ IF needsInit
       THEN Tokenize_init(init(heap, INIT.customSchemes,
                               decoded(tlds, encodedTlds), decoded(utlds, encodedUtlds)),
                          decoded(tlds, encodedTlds), decoded(utlds, encodedUtlds))
       ELSE /\ start' = scanners[INIT.scanner].start
            /\ UNCHANGED <<tlds, utlds, heap, scanners, INIT>>
    /\ str' = Head(script).str
    /\ iterable' = stringToArray(lowerAZ(Head(script).str))
    /\ tokens' = <<>>
    /\ cursor' = 0
    /\ charCursor' = 0
    /\ pc' = "outer"
    /\ thrown' = ""
    /\ script' = Tail(script)
    /\ UNCHANGED <<results, state, tokenLength, latestAccepting, sinceAccepts,
                   charsSinceAccepts>>
    /\ UNCHANGED <<opts, meta, mtokens, elements, iToken>>

----------------------------------------------------------------------------
(* linkify-react: stringToElements *)

\* if (v): false, 0 and undefined are falsy
truthy(v) == v \notin {"false", "0", "undefined"}

\* opts.get(key)
get(o, key) == o[key]

\* opts.check(token): whether the validate callback of the token's type
\* accepts it; a callback that throws counts as refusing
check(o, token) == o.validate[token.t] = "true"

\* token.toString()
toString(token) == token.v

\* The tests of the loop with the link test first
branch_linkFirst(token, o) ==
    IF ~token.isLink \/ ~check(o, token) THEN "text"
    ELSE IF token.t = "nl" /\ truthy(get(o, "nl2br")) THEN "br"
    ELSE "render"

\* The tests of the loop without the call of opts.check
branch_unchecked(token, o) ==
    IF token.t = "nl" /\ truthy(get(o, "nl2br")) THEN "br"
    ELSE IF ~token.isLink THEN "text"
    ELSE "render"

\* The tests of the loop body in their order: lines 19, 22, 25
branch(token, o) ==
    IF token.t = "nl" /\ truthy(get(o, "nl2br")) THEN "br"
    ELSE IF ~token.isLink \/ ~check(o, token) THEN "text"
    ELSE "render"

\* The generated key
linkifyKey(elementId) == <<"__linkify-el-", elementId>>

\* React.createElement('br', { key })
brElement(elementId) == [type |-> "br", key |-> linkifyKey(elementId), v |-> <<>>]

\* A string among the elements
textElement(s) == [type |-> "#text", key |-> <<>>, v |-> s]

\* What opts.render(token) returns when it returns an element
renderOf(token, o) ==
    [type |-> "a", key |-> IF o.render = "keyed" THEN <<"own", 0>> ELSE <<>>,
     v |-> toString(token)]

\* The exception swallowed
raises_caught(token, o) == ""

\* What leaves the else branch as an exception: what the render callback
\* throws, or the TypeError of reading props of null
raises(token, o) ==
    IF o.render = "throws" THEN "thrown by render"
    ELSE IF o.render = "null" THEN "TypeError"
    ELSE ""

\* 'key' in rendered.props
hasKey(rendered) == rendered.key # <<>>

\* The rendered element, cloned with a generated key if it has none
withKey(rendered, elementId) ==
    IF ~hasKey(rendered) THEN [rendered EXCEPT !.key = linkifyKey(elementId)]
    ELSE rendered

\* const token = tokens[i]
token == mtokens[iToken + 1]

\* stringToElements(str, opts, meta): lines 13-14
Elements_call ==
    /\ pc = "idle"
    /\ script # <<>>
    /\ Head(script).op = "elements"
    /\ mtokens' = Head(script).str
    /\ opts' = Head(script).opts
    /\ elements' = <<>>
    /\ iToken' = 0
    /\ thrown' = ""
    /\ pc' = "elements"
    /\ script' = Tail(script)
    /\ UNCHANGED <<tlds, utlds, heap, scanners, results, runVars, INIT, meta>>

\* A newline with nl2br on: lines 19-21
Elements_br ==
    /\ pc = "elements"
    /\ iToken < Len(mtokens)
    /\ branch(token, opts) = "br"
    /\ elements' = Append(elements, brElement(meta.elementId))
    /\ meta' = [meta EXCEPT !.elementId = @ + 1]
    /\ iToken' = iToken + 1
    /\ UNCHANGED <<tlds, utlds, heap, scanners, script, results, pc, runVars>>
    /\ UNCHANGED <<INIT, thrown, opts, mtokens>>

\* Regular text: lines 22-24
Elements_text ==
    /\ pc = "elements"
    /\ iToken < Len(mtokens)
    /\ branch(token, opts) = "text"
    /\ elements' = Append(elements, textElement(toString(token)))
    /\ iToken' = iToken + 1
    /\ UNCHANGED <<tlds, utlds, heap, scanners, script, results, pc, runVars>>
    /\ UNCHANGED <<INIT, thrown, opts, meta, mtokens>>

\* An accepted link: lines 25-34
Elements_render ==
    /\ pc = "elements"
    /\ iToken < Len(mtokens)
    /\ branch(token, opts) = "render"
    /\ IF raises(token, opts) # ""
       THEN /\ thrown' = raises(token, opts)
            /\ pc' = "idle"
            /\ UNCHANGED <<elements, meta, iToken>>
       ELSE /\ elements' = Append(elements, withKey(renderOf(token, opts), meta.elementId))
            /\ meta' = IF hasKey(renderOf(token, opts)) THEN meta
                       ELSE [meta EXCEPT !.elementId = @ + 1]
            /\ iToken' = iToken + 1
            /\ UNCHANGED <<thrown, pc>>
    /\ UNCHANGED <<tlds, utlds, heap, scanners, script, results, runVars>>
    /\ UNCHANGED <<INIT, opts, mtokens>>

\* return elements: line 37
Elements_return ==
    /\ pc = "elements"
    /\ ~(iToken < Len(mtokens))
    /\ results' = Append(results, [start |-> 0, str |-> mtokens, tokens |-> elements])
    /\ pc' = "idle"
    /\ UNCHANGED <<tlds, utlds, heap, scanners, script, runVars>>
    /\ UNCHANGED outerVars

\* `__linkify-el-${meta.elementId++}`: the key joins the keys made so far
genEl(R) ==
    [R EXCEPT !.log = Append(@, linkifyKey(R.elementId)), !.elementId = @ + 1]

\* defaultLinkRender: attributes.key = `__linkify-lnk-${linkId++}`
genLnk(R) ==
    [R EXCEPT !.log = Append(@, <<"__linkify-lnk-", R.linkId>>), !.linkId = @ + 1]

\* Lines 27-32 for the element defaultLinkRender returns: a key of its own is
\* made unless the element's props hold one
afterRender(R, inProps) == IF inProps THEN R ELSE genEl(R)

\* One turn of the loop of stringToElements
tokenKeys(R, tok, o, inProps) ==
    CASE branch(tok, o) = "br" -> genEl(R)
      [] branch(tok, o) = "text" -> R
      [] branch(tok, o) = "render" -> afterRender(genLnk(R), inProps)

\* stringToElements(child, opts, meta), from the i-th token on
RECURSIVE stringKeys(_, _, _, _, _)
stringKeys(R, toks, i, o, inProps) ==
    IF i > Len(toks) THEN R
    ELSE stringKeys(tokenKeys(R, toks[i], o, inProps), toks, i + 1, o, inProps)

\* child.type.toUpperCase()
toUpperCase(type) ==
    CASE type = "b" -> "B"
      [] type = "i" -> "I"
      [] type = "script" -> "SCRIPT"

RECURSIVE linkifyReactElement(_, _, _, _)
RECURSIVE forEachChild(_, _, _, _, _)

\* The nested call given a copy of meta
nested_copiedMeta(R, child, o, inProps) ==
    [linkifyReactElement(R, child, o, inProps) EXCEPT !.elementId = R.elementId]

\* children.push(linkifyReactElement(child, opts, meta)): the same meta
nested(R, child, o, inProps) == linkifyReactElement(R, child, o, inProps)

\* The callback of React.Children.forEach: lines 57-72
eachChild(R, child, o, inProps) ==
    IF child.kind = "string" THEN stringKeys(R, child.children, 1, o, inProps)
    ELSE IF child.kind = "element"
         THEN IF toUpperCase(child.type) \in o.ignoreTags THEN R
              ELSE nested(R, child, o, inProps)
    ELSE R

forEachChild(R, children, i, o, inProps) ==
    IF i > Len(children) THEN R
    ELSE forEachChild(eachChild(R, children[i], o, inProps), children, i + 1, o, inProps)

\* linkifyReactElement(element, opts, meta): the keys it makes, in order, and
\* what it leaves in meta.elementId and linkId
linkifyReactElement(R, element, o, inProps) ==
    IF Len(element.children) = 0 THEN R
    ELSE genEl(forEachChild(R, element.children, 1, o, inProps))

\* Linkify(props): linkId = 0, meta = { elementId: 0 }, the children wrapped in
\* one element
Linkify(children, o, inProps) ==
    linkifyReactElement([elementId |-> 0, linkId |-> 0, log |-> <<>>],
                        elementChild("Fragment", children), o, inProps)

\* One render of the Linkify component
Linkify_render ==
    /\ pc = "idle"
    /\ script # <<>>
    /\ Head(script).op = "render"
    /\ opts' = Head(script).opts
    /\ meta' = [elementId |-> Linkify(Head(script).str, Head(script).opts,
                                      Head(script).dev).elementId]
    /\ results' = Append(results,
            [start |-> 0, str |-> Head(script).str,
             tokens |-> Linkify(Head(script).str, Head(script).opts, Head(script).dev).log,
             linkId |-> Linkify(Head(script).str, Head(script).opts, Head(script).dev).linkId])
    /\ thrown' = ""
    /\ script' = Tail(script)
    /\ UNCHANGED <<tlds, utlds, heap, scanners, pc, runVars, INIT, mtokens, elements, iToken>>

NextRender == Client_choose \/ Linkify_render

NextReact ==
    \/ Client_choose \/ Elements_call \/ Elements_br \/ Elements_text
    \/ Elements_render \/ Elements_return

NextLinkify ==
    \/ Client_choose \/ Register_call \/ Reset_call \/ Tokenize_call
    \/ Run_outer \/ Run_inner \/ Run_push \/ Run_return

Next == Init_call \/ Client_choose \/ Run_call \/ Run_outer \/ Run_inner \/ Run_push \/ Run_return

----------------------------------------------------------------------------
(* Properties *)

\* The client has made all its calls
Done == script = <<>> /\ pc = "idle"

\* The units run walks over for the string s
unitsOf(s) == stringToArray(lowerAZ(s))

\* The number of code units in the first n units
RECURSIVE offsetOf(_, _)
offsetOf(units, n) == IF n = 0 THEN 0 ELSE offsetOf(units, n - 1) + Len(units[n])

\* A literal or class edge leaves the State s on input
hasEdge(h, s, input) == input \in DOMAIN h[s].j \/ goJr(h[s].jr, 1, input) # 0

\* C1: the tokens run returns partition str: the first starts at 0, each starts
\* where the one before ends, the last ends at str.length, and each value is
\* str.slice(s, e)
isPartition(s, toks) ==
    /\ (s = <<>>) = (toks = <<>>)
    /\ toks # <<>> => toks[1].s = 0 /\ toks[Len(toks)].e = Len(s)
    /\ \A k \in 1..Len(toks) :
        /\ toks[k].s >= 0 /\ toks[k].s <= toks[k].e /\ toks[k].e <= Len(s)
        /\ toks[k].v = SubSeq(s, toks[k].s + 1, toks[k].e)
        /\ k > 1 => toks[k].s = toks[k - 1].e

TokensPartitionInput == \A i \in 1..Len(results) : isPartition(results[i].str, results[i].tokens)

\* C1 witness: a run returned a surrogate pair as one token and then the joiner
\* it had consumed and given back
PartitionWitness ==
    /\ Done
    /\ \E i \in 1..Len(results) :
        /\ Len(results[i].tokens) = 2
        /\ results[i].tokens[1].v = <<55357, 56832>>
        /\ results[i].tokens[2].v = <<EMOJI_JOINER>>

\* C2: run never throws: the first step of every token leaves the start State for
\* an accepting State, latestAccepting is set when the token is pushed, and a
\* token that starts with a code point without literal or class edge is a SYM
\* token of that code point
RunNeverFails ==
    /\ pc # "threw"
    /\ pc = "inner" /\ tokenLength = 0 =>
        /\ state = start
        /\ canStep
        /\ accepts(heap[go(heap, state, iterable[charCursor + 1])])
    /\ pc = "inner" /\ tokenLength > 0 => latestAccepting # 0
    /\ \A i \in 1..Len(results) : \A k \in 1..Len(results[i].tokens) :
        LET tok == results[i].tokens[k]
            first == Head(unitsOf(slice(results[i].str, tok.s, Len(results[i].str))))
        IN  (~hasEdge(heap, results[i].start, first)) =>
                tok.t = tk("SYM") /\ tok.e = tok.s + Len(first)

\* C2 witness: a null character, or a lone surrogate, came out as a SYM token
NeverFailsWitness ==
    /\ Done
    /\ \E i \in 1..Len(results) : \E k \in 1..Len(results[i].tokens) :
        /\ results[i].tokens[k].t = tk("SYM")
        /\ results[i].tokens[k].v \in {<<0>>, <<55357>>, <<56832>>}

\* The longest match from units[p]: how many units are consumed when the machine
\* was last in an accepting State (0: never), and that State's token
RECURSIVE longestFrom(_, _, _, _, _)
longestFrom(h, st, units, i, best) ==
    IF i > Len(units) THEN best
    ELSE LET nextState == go(h, st, units[i])
         IN  IF nextState = 0 THEN best
             ELSE longestFrom(h, nextState, units, i + 1,
                              IF accepts(h[nextState])
                              THEN [upTo |-> i, t |-> h[nextState].t] ELSE best)

\* toks, from the k-th on, are the longest matches of units from the p-th on
RECURSIVE areLongestMatches(_, _, _, _, _, _)
areLongestMatches(h, st, units, toks, k, p) ==
    IF k > Len(toks) \/ p > Len(units) THEN k > Len(toks) /\ p > Len(units)
    ELSE LET m == longestFrom(h, st, units, p, [upTo |-> 0, t |-> NoToken])
         IN  /\ m.upTo >= p
             /\ toks[k].s = offsetOf(units, p - 1)
             /\ toks[k].e = offsetOf(units, m.upTo)
             /\ toks[k].t = m.t
             /\ areLongestMatches(h, st, units, toks, k + 1, m.upTo + 1)

\* C3: every token is the greedy longest match: it ends after the last code point
\* at which the machine accepted, carries that State's token, and the next token
\* starts right there, on the code points that were rewound
TokensAreLongestMatches ==
    \A i \in 1..Len(results) :
        areLongestMatches(heap, results[i].start, unitsOf(results[i].str),
                          results[i].tokens, 1, 1)

\* C3 witness: a token was pushed after the machine had gone past its last
\* accepting State, and the rewound code point began the next token
LongestMatchWitness ==
    /\ pc = "inner"
    /\ charsSinceAccepts = 0
    /\ tokens # <<>>
    /\ tokens[Len(tokens)].e < cursor
    /\ tokens[Len(tokens)].e + tokenLength = cursor

\* The tokens' names and offsets
shapeOf(toks) == [k \in 1..Len(toks) |-> <<toks[k].t, toks[k].s, toks[k].e>>]

\* C4: scanning is ASCII-case-insensitive: s and s with a-z replaced by A-Z give
\* the same token names at the same offsets, and every value is cut from the
\* string that was passed in, in its own case
ScanIgnoresAsciiCase ==
    \A i, j \in 1..Len(results) :
        /\ \A k \in 1..Len(results[i].tokens) :
            results[i].tokens[k].v =
                slice(results[i].str, results[i].tokens[k].s, results[i].tokens[k].e)
        /\ (results[i].start = results[j].start /\ results[j].str = upperAZ(results[i].str))
            => shapeOf(results[i].tokens) = shapeOf(results[j].tokens)

\* C4 witness: "com" and "COM" both scanned, each a TLD with its own spelling
IgnoresCaseWitness ==
    /\ Done
    /\ Len(results) = 2
    /\ results[1].tokens = <<[t |-> tk("TLD"), v |-> <<99, 111, 109>>, s |-> 0, e |-> 3]>>
    /\ results[2].tokens = <<[t |-> tk("TLD"), v |-> <<67, 79, 77>>, s |-> 0, e |-> 3]>>

\* The one token that covers the whole of s
oneToken(t, s) == <<[t |-> t, v |-> s, s |-> 0, e |-> Len(s)]>>

\* The scanner the i-th result came from
scannerOf(i) == CHOOSE n \in 1..Len(scanners) : scanners[n].start = results[i].start

\* C5 as stated: every registered word, scanned alone, is one token with the
\* name it was registered with: TLD, UTLD, SCHEME, SLASH_SCHEME, LOCALHOST, or
\* the custom scheme itself
KeywordsKeepRegisteredTag ==
    \A i \in 1..Len(results) :
        LET w == results[i].str
            toks == results[i].tokens
        IN  /\ w \in Range(tlds.v) => toks = oneToken(tk("TLD"), w)
            /\ w \in Range(utlds.v) => toks = oneToken(tk("UTLD"), w)
            /\ w \in SchemeWords => toks = oneToken(tk("SCHEME"), w)
            /\ w \in SlashSchemeWords => toks = oneToken(tk("SLASH_SCHEME"), w)
            /\ w = Localhost => toks = oneToken(tk("LOCALHOST"), w)
            /\ w \in customWords(scannerOf(i)) => toks = oneToken(schemeToken(w), w)

\* The name of the last registration of the word w in the n-th machine:
\* localhost comes last, the custom schemes before it, the fixed schemes and
\* the top-level domains before those
latestTag(n, w) ==
    IF w = Localhost THEN tk("LOCALHOST")
    ELSE IF w \in customWords(n) THEN schemeToken(w)
    ELSE IF w \in SlashSchemeWords THEN tk("SLASH_SCHEME")
    ELSE IF w \in SchemeWords THEN tk("SCHEME")
    ELSE IF w \in Range(utlds.v) THEN tk("UTLD")
    ELSE tk("TLD")

\* C5 amended: every registered word, scanned alone, is one token with the name
\* of its latest registration; no registration removes or renames a different
\* word, be it a prefix or an extension
KeywordsKeepLatestTag ==
    \A i \in 1..Len(results) :
        results[i].str \in keywordsOf(scannerOf(i)) =>
            results[i].tokens = oneToken(latestTag(scannerOf(i), results[i].str), results[i].str)

\* C5 witness: with the custom schemes co and comx registered over the
\* top-level domains co and com, com is still a TLD
KeywordsWitness ==
    /\ Done
    /\ customWords(1) = {<<99, 111>>, <<99, 111, 109, 120>>}
    /\ results[1].str = <<99, 111, 109>>
    /\ results[1].tokens = oneToken(tk("TLD"), <<99, 111, 109>>)

\* The name of a string of letters and digits that is no registered word
plainTag(w) ==
    IF \A k \in 1..Len(w) : isAsciiLetter(w[k]) THEN tk("WORD")
    ELSE IF \A k \in 1..Len(w) : isDigit(w[k]) THEN tk("NUM")
    ELSE tk("ASCIINUMERICAL")

\* C6: a non-empty input of ASCII letters and digits that is not, in lower case,
\* a registered word is one token: WORD if all letters, NUM if all digits,
\* ASCIINUMERICAL if mixed
WordsScanToOneToken ==
    \A i \in 1..Len(results) :
        LET w == results[i].str
        IN  (Len(w) > 0 /\ isAlnum(w) /\ lowerAZ(w) \notin keywordsOf(scannerOf(i))) =>
                results[i].tokens = oneToken(plainTag(w), w)

\* C6 witness: the top-level domain com followed by a digit is ASCIINUMERICAL
WordsWitness ==
    /\ Done
    /\ results[1].tokens = oneToken(tk("ASCIINUMERICAL"), <<99, 111, 109, 49>>)

\* Some token of toks is named t and covers exactly the code units from..to-1
hasToken(toks, t, from, to) ==
    \E k \in 1..Len(toks) : toks[k].t = t /\ toks[k].s = from /\ toks[k].e = to

\* Every CR directly before an LF is, with that LF, one NL token
CrLfPairsAreNl ==
    \A i \in 1..Len(results) :
        LET w == results[i].str
        IN  \A p \in 1..Len(w) - 1 :
                (w[p] = CR /\ w[p + 1] = LF) => hasToken(results[i].tokens, tk("NL"), p - 1, p + 1)

\* Every LF with no CR directly before it is one NL token
LoneLfIsNl ==
    \A i \in 1..Len(results) :
        LET w == results[i].str
        IN  \A p \in 1..Len(w) :
                (w[p] = LF /\ ~(p > 1 /\ w[p - 1] = CR)) =>
                    hasToken(results[i].tokens, tk("NL"), p - 1, p)

\* Every CR with no LF directly after it lies in a WS token
LoneCrIsInWs ==
    \A i \in 1..Len(results) :
        LET w == results[i].str
            toks == results[i].tokens
        IN  \A p \in 1..Len(w) :
                (w[p] = CR /\ ~(p < Len(w) /\ w[p + 1] = LF)) =>
                    \E k \in 1..Len(toks) :
                        toks[k].t = tk("WS") /\ toks[k].s <= p - 1 /\ toks[k].e >= p

\* C7 as stated: a CR directly followed by LF is one NL token over both, a lone
\* LF is one NL token, and a CR not followed by LF is part of a WS token
NewlinesAreNl == CrLfPairsAreNl /\ LoneLfIsNl /\ LoneCrIsInWs

\* The code points of s in order
codePointsOf(s) == LET a == stringToArray(s) IN [i \in 1..Len(a) |-> codePoint(a[i])]

\* An emoji code point, then emoji code points, variation selectors, and joiners
\* each followed by an emoji code point
isEmojiSequence(cps) ==
    /\ Len(cps) > 0
    /\ cps[1] \in EmojiCodePoints
    /\ \A k \in 2..Len(cps) :
        \/ cps[k] \in EmojiCodePoints
        \/ cps[k] = EMOJI_VARIATION
        \/ cps[k] = EMOJI_JOINER /\ k < Len(cps) /\ cps[k + 1] \in EmojiCodePoints

KeycapBases == {35, 42} \cup (48..57)

BaseFlags == {"scheme", "slashscheme"}
ShapeFlags == {"domain", "numeric", "asciinumeric", "ascii"}

\* Whether the :// is optional for the scheme sch of the n-th machine
optionalOf(n, sch) ==
    LET cs == scanners[n].customSchemes
    IN  cs[CHOOSE k \in 1..Len(cs) : cs[k][1] = sch][2]

hasHyphen(sch) == \E k \in 1..Len(sch) : sch[k] = 45
hasLetter(sch) == \E k \in 1..Len(sch) : isAsciiLetter(sch[k])
hasDigit(sch) == \E k \in 1..Len(sch) : isDigit(sch[k])

SchemeOrderIsIrrelevant ==
    /\ \A i, j \in 1..Len(results) :
        results[i].str = results[j].str => results[i].tokens = results[j].tokens
    /\ \A i \in 1..Len(results) :
        results[i].str \in customWords(scannerOf(i)) =>
            results[i].tokens = oneToken(schemeToken(results[i].str), results[i].str)

\* C10 witness: with abc listed before ab on the first machine and after it on
\* the second, both scan abc as the one token abc
OrderWitness ==
    /\ Done
    /\ scanners[1].customSchemes = << <<<<97, 98, 99>>, TRUE>>, <<<<97, 98>>, FALSE>> >>
    /\ scanners[2].customSchemes = << <<<<97, 98>>, FALSE>>, <<<<97, 98, 99>>, TRUE>> >>
    /\ Len(results) = 2
    /\ scannerOf(1) # scannerOf(2)
    /\ \A i \in 1..2 : results[i].tokens = oneToken(schemeToken(<<97, 98, 99>>), <<97, 98, 99>>)

\* C11: scanning is deterministic: machines built by separate init calls from
\* the same custom schemes return the same tokens (name, value, start, end) for
\* the same string, and so does one machine run twice on the same string
ScanIsDeterministic ==
    \A i, j \in 1..Len(results) :
        (/\ results[i].str = results[j].str
         /\ scanners[scannerOf(i)].customSchemes = scanners[scannerOf(j)].customSchemes)
            => results[i].tokens = results[j].tokens

\* C11 witness: com was scanned on the first machine, on the second and on the
\* first again, each time as one TLD
DeterministicWitness ==
    /\ Done
    /\ Len(results) = 3
    /\ scannerOf(1) = 1 /\ scannerOf(2) = 2 /\ scannerOf(3) = 1
    /\ \A i \in 1..3 : results[i].tokens = oneToken(tk("TLD"), <<99, 111, 109>>)

\* No step changes a State or a machine that exists already
earlierKept ==
    /\ Len(heap') >= Len(heap)
    /\ \A s \in 1..Len(heap) : heap'[s] = heap[s]
    /\ Len(scanners') >= Len(scanners)
    /\ \A n \in 1..Len(scanners) : scanners'[n] = scanners[n]

\* A start state returns the same tokens for the same string whenever it is run
sameTokensAgain ==
    \A i, j \in 1..Len(results) :
        (results[i].start = results[j].start /\ results[i].str = results[j].str)
            => results[i].tokens = results[j].tokens

\* C12: building a new machine never changes one built earlier: every init
\* leaves every State already on the heap as it was and adds its own after
\* them, and a start state returned by an earlier init gives, after the later
\* init, the same tokens for every string as before it
EarlierMachinesAreUnchanged == [][earlierKept]_vars /\ []sameTokensAgain

\* C12 witness: the first machine was built without custom schemes and scanned
\* ab as a WORD, a second machine was built with ab and a-b as schemes, and the
\* first scanned ab as a WORD again
UnchangedWitness ==
    /\ Done
    /\ Len(scanners) = 2
    /\ scanners[1].customSchemes = <<>>
    /\ scanners[2].customSchemes = SchemesAB
    /\ Len(results) = 2
    /\ scannerOf(1) = 1 /\ scannerOf(2) = 1
    /\ \A i \in 1..2 : results[i].tokens = oneToken(tk("WORD"), <<97, 98>>)

\* The units joined in order
RECURSIVE joined(_)
joined(units) == IF units = <<>> THEN <<>> ELSE Head(units) \o joined(Tail(units))

\* C13: the units stringToArray splits a string into, joined in order, are the
\* string; no unit is empty; a unit has length 2 exactly when its first code
\* unit is in D800-DBFF and the code unit right after it is in DC00-DFFF; every
\* other code unit, a lone or trailing surrogate too, is a unit of length 1
UnitsSplitTheString ==
    LET s == lowerAZ(str)
    IN  /\ joined(iterable) = s
        /\ \A k \in 1..Len(iterable) :
            LET at == offsetOf(iterable, k - 1)
                isPair == /\ s[at + 1] \in 55296..56319
                          /\ at + 2 <= Len(s)
                          /\ s[at + 2] \in 56320..57343
            IN  /\ Len(iterable[k]) \in {1, 2}
                /\ Len(iterable[k]) = 2 <=> isPair

\* C13 witness: U+DBFF U+DFFF U+D800 was split into the pair and the trailing
\* high surrogate
SplitWitness ==
    /\ pc = "outer"
    /\ str = <<56319, 57343, 55296>>
    /\ iterable = << <<56319, 57343>>, <<55296>> >>

\* The words of an encoded string read one character at a time: the first
\* digit of a run emits the stack, the run's number (counted up to 1000) is
\* kept in pending, and the next character that is no digit is pushed after
\* that many characters were dropped
RECURSIVE wordsOf(_, _, _, _, _)
wordsOf(encoded, k, stack, pending, words) ==
    IF k > Len(encoded) THEN words
    ELSE IF encoded[k] \in 48..57
    THEN IF k = 1 \/ encoded[k - 1] \notin 48..57
         THEN wordsOf(encoded, k + 1, stack, encoded[k] - 48, Append(words, stack))
         ELSE wordsOf(encoded, k + 1, stack, Min(10 * pending + (encoded[k] - 48), 1000), words)
    ELSE wordsOf(encoded, k + 1,
                 Append(SubSeq(stack, 1, Max(Len(stack) - pending, 0)), encoded[k]), 0, words)

\* The places where a run of digits starts
runStarts(encoded) ==
    {k \in 1..Len(encoded) :
        encoded[k] \in 48..57 /\ (k = 1 \/ encoded[k - 1] \notin 48..57)}

\* The run of digits that starts at k
RECURSIVE runAt(_, _)
runAt(encoded, k) ==
    IF k > Len(encoded) \/ encoded[k] \notin 48..57 THEN <<>>
    ELSE <<encoded[k]>> \o runAt(encoded, k + 1)

\* 2^53 = 9007199254740992
TwoTo53 == <<57, 48, 48, 55, 49, 57, 57, 50, 53, 52, 55, 52, 48, 57, 57, 50>>

\* Some run of digits of encoded is a number above 2^53
hasRunAbove2To53(encoded) ==
    \E k \in runStarts(encoded) :
        LET sig == significant(runAt(encoded, k))
        IN  \/ Len(sig) > Len(TwoTo53)
            \/ Len(sig) = Len(TwoTo53) /\ digitsGreater(sig, TwoTo53)

\* Every decodeTlds call that returned gave one word per run of digits, each
\* the stack as it was before the run
decodedWordsAreRight ==
    \A i \in 1..Len(results) :
        /\ results[i].tokens = wordsOf(results[i].str, 1, <<>>, 0, <<>>)
        /\ Len(results[i].tokens) = Cardinality(runStarts(results[i].str))

TrimSet == {tk("DOT"), tk("COMMA"), tk("EXCLAMATION"), tk("QUERY"), tk("SEMI"),
            tk("COLON"), tk("QUOTE"), tk("APOSTROPHE")}

isWhitespace(t) == t \in {tk("WS"), tk("NL")}

\* The bracket families, each an opener and its closer
Brackets ==
    {<<"OPENPAREN", "CLOSEPAREN">>, <<"OPENBRACKET", "CLOSEBRACKET">>,
     <<"OPENBRACE", "CLOSEBRACE">>, <<"OPENANGLEBRACKET", "CLOSEANGLEBRACKET">>,
     <<"FULLWIDTHLEFTPAREN", "FULLWIDTHRIGHTPAREN">>,
     <<"LEFTCORNERBRACKET", "RIGHTCORNERBRACKET">>,
     <<"LEFTWHITECORNERBRACKET", "RIGHTWHITECORNERBRACKET">>,
     <<"FULLWIDTHLESSTHAN", "FULLWIDTHGREATERTHAN">>}

isOpener(t) == \E b \in Brackets : t = tk(b[1])
isCloser(t) == \E b \in Brackets : t = tk(b[2])
familyOf(t) == CHOOSE b \in Brackets : t \in {tk(b[1]), tk(b[2])}

\* The running counters when an entity starts: no bracket is open
NoneOpen == [b \in Brackets |-> 0]

\* The counters after the token t is taken into the entity
counted(open, t) ==
    IF isOpener(t) THEN [open EXCEPT ![familyOf(t)] = @ + 1]
    ELSE IF isCloser(t) THEN [open EXCEPT ![familyOf(t)] = @ - 1]
    ELSE open

\* A token that ends the accumulation: whitespace only
stops_unbalanced(open, t) == isWhitespace(t)

\* A token that ends the accumulation: whitespace, or a closing bracket while
\* the running counter of its family is 0
stops(open, t) == isWhitespace(t) \/ (isCloser(t) /\ open[familyOf(t)] = 0)

\* The last token accumulated from the k-th on, the counters being open when
\* the k-th is reached (k - 1 if none is accumulated)
RECURSIVE accumulated(_, _, _)
accumulated(toks, k, open) ==
    IF k > Len(toks) \/ stops(open, toks[k].t) THEN k - 1
    ELSE accumulated(toks, k + 1, counted(open, toks[k].t))

\* The last token of the body that starts at k (k - 1 if none)
bodyEnd(toks, k) == accumulated(toks, k, NoneOpen)

\* The number of tokens t among the from-th to the to-th
RECURSIVE countOf(_, _, _, _)
countOf(toks, from, to, t) ==
    IF to < from THEN 0
    ELSE countOf(toks, from, to - 1, t) + (IF toks[to].t = t THEN 1 ELSE 0)

\* The to-th token is a closing bracket with no matching opener among the
\* from-th to the to-th
unmatchedCloser(toks, from, to) ==
    /\ isCloser(toks[to].t)
    /\ countOf(toks, from, to, tk(familyOf(toks[to].t)[1]))
            < countOf(toks, from, to, toks[to].t)

\* The to-th token is stripped from the right end of the entity from..to
stripped(toks, from, to) == toks[to].t \in TrimSet \/ unmatchedCloser(toks, from, to)

RECURSIVE trimmedEnd(_, _, _)

\* trimmedEnd stripping one token at most
trimmedEnd_once(toks, from, to) ==
    IF to < from THEN from - 1
    ELSE IF stripped(toks, from, to) THEN to - 1
    ELSE to

\* The end of the body from..to after the trailing tokens of the trim set are
\* stripped (from - 1 if nothing is left)
trimmedEnd(toks, from, to) ==
    IF to < from THEN from - 1
    ELSE IF stripped(toks, from, to) THEN trimmedEnd(toks, from, to - 1)
    ELSE to

\* Where the body of a custom-scheme link whose scheme token is the k-th
\* starts: after the COLON, and after SLASH SLASH when the scheme requires
\* them (0 if the tokens are not there)
bodyStart(toks, k, groups) ==
    IF ~(k + 1 <= Len(toks) /\ toks[k].t.sch # <<>> /\ toks[k + 1].t = tk("COLON")) THEN 0
    ELSE IF "slashscheme" \notin flagsForToken(toks[k].t, groups) THEN k + 2
    ELSE IF k + 3 <= Len(toks) /\ toks[k + 2].t = tk("SLASH") /\ toks[k + 3].t = tk("SLASH")
    THEN k + 4
    ELSE 0

\* The last token of the custom-scheme link that starts at the k-th token
\* (0 if none does)
linkEnd(toks, k, groups) ==
    LET from == bodyStart(toks, k, groups)
        to == trimmedEnd(toks, from, bodyEnd(toks, from))
    IN  IF from = 0 \/ to < from THEN 0 ELSE to

\* The custom-scheme links among the tokens, from the k-th on
RECURSIVE customLinks(_, _, _)
customLinks(toks, k, groups) ==
    IF k > Len(toks) THEN <<>>
    ELSE IF linkEnd(toks, k, groups) = 0 THEN customLinks(toks, k + 1, groups)
    ELSE <<[type |-> toks[k].t.sch, s |-> toks[k].s, e |-> toks[linkEnd(toks, k, groups)].e]>>
         \o customLinks(toks, linkEnd(toks, k, groups) + 1, groups)

\* The custom-scheme links tokenize returned in its i-th result
linksOf(i) == customLinks(results[i].tokens, 1, scanners[scannerOf(i)].groups)

\* The tokens a domain is made of, and those that end one
isSegment(t) ==
    t \in {tk("WORD"), tk("UWORD"), tk("ASCIINUMERICAL"), tk("ALPHANUMERICAL"), tk("NUM"),
           tk("TLD"), tk("UTLD"), tk("LOCALHOST"), tk("EMOJI")}
endsDomain(t) == t \in {tk("TLD"), tk("UTLD"), tk("LOCALHOST")}
isSeparator(t) == t \in {tk("DOT"), tk("HYPHEN")}

\* A separator and a segment follow the k-th token
continues(toks, k) ==
    k + 2 <= Len(toks) /\ isSeparator(toks[k + 1].t) /\ isSegment(toks[k + 2].t)

\* The last token of the longest domain whose segments reach the k-th token at
\* least, best being the end of the longest so far (0 if none)
RECURSIVE domainRest(_, _, _)
domainRest(toks, k, best) ==
    IF continues(toks, k)
    THEN domainRest(toks, k + 2, IF endsDomain(toks[k + 2].t) THEN k + 2 ELSE best)
    ELSE best

\* The last token of the longest domain that starts at the k-th token (0 if
\* none does)
domainEnd(toks, k) ==
    IF k > Len(toks) \/ ~isSegment(toks[k].t) THEN 0
    ELSE domainRest(toks, k, IF toks[k].t = tk("LOCALHOST") THEN k ELSE 0)

\* The last token of the segments and separators before the AT of an email
\* address that starts at the k-th token (0 if no segment is there)
RECURSIVE localEnd(_, _)
localEnd(toks, k) ==
    IF k > Len(toks) \/ ~isSegment(toks[k].t) THEN 0
    ELSE IF continues(toks, k) THEN localEnd(toks, k + 2)
    ELSE k

\* The last token of the email address that starts at the k-th token (0 if
\* none does)
emailEnd(toks, k) ==
    IF localEnd(toks, k) = 0 THEN 0
    ELSE IF ~(localEnd(toks, k) + 1 <= Len(toks) /\ toks[localEnd(toks, k) + 1].t = tk("AT"))
    THEN 0
    ELSE domainEnd(toks, localEnd(toks, k) + 2)

\* The last token of the domain that ends at d and of its port, if a COLON and
\* digits follow
portEnd(toks, d) ==
    IF d + 2 <= Len(toks) /\ toks[d + 1].t = tk("COLON") /\ toks[d + 2].t = tk("NUM")
    THEN d + 2
    ELSE d

\* The last token of the URL whose domain and port end at p: the path, the
\* query and the fragment are accumulated from a SLASH, a QUERY or a POUND on
\* and trimmed
tailEnd(toks, p) ==
    IF p + 1 <= Len(toks) /\ toks[p + 1].t \in {tk("SLASH"), tk("QUERY"), tk("POUND")}
    THEN trimmedEnd(toks, p + 1, bodyEnd(toks, p + 1))
    ELSE p

\* The last token of the URL that starts with a domain at the k-th token (0
\* if none does)
domainUrlEnd(toks, k) ==
    IF domainEnd(toks, k) = 0 THEN 0 ELSE tailEnd(toks, portEnd(toks, domainEnd(toks, k)))

\* The k-th token is a SLASH_SCHEME, and COLON SLASH SLASH follow it
startsSlashScheme(toks, k) ==
    /\ k + 3 <= Len(toks)
    /\ toks[k].t = tk("SLASH_SCHEME")
    /\ toks[k + 1].t = tk("COLON")
    /\ toks[k + 2].t = tk("SLASH")
    /\ toks[k + 3].t = tk("SLASH")

\* The k-th token is a SCHEME, and a COLON follows it
startsScheme(toks, k) ==
    k + 1 <= Len(toks) /\ toks[k].t = tk("SCHEME") /\ toks[k + 1].t = tk("COLON")

\* The end of the body from on, 0 if nothing is left of it
freeformEnd(toks, from) ==
    IF trimmedEnd(toks, from, bodyEnd(toks, from)) < from THEN 0
    ELSE trimmedEnd(toks, from, bodyEnd(toks, from))

\* The last token of the URL that starts at the k-th token (0 if none does)
urlEnd(toks, k, groups) ==
    IF startsSlashScheme(toks, k) THEN domainUrlEnd(toks, k + 4)
    ELSE IF startsScheme(toks, k) THEN freeformEnd(toks, k + 2)
    ELSE IF linkEnd(toks, k, groups) # 0 THEN linkEnd(toks, k, groups)
    ELSE domainUrlEnd(toks, k)

\* The entity of the tokens first..last
entity(toks, type, first, last) ==
    [t |-> type, isLink |-> type \in {"url", "email"}, first |-> first, last |-> last,
     s |-> toks[first].s, e |-> toks[last].e]

\* The entities of the tokens from the k-th on: the longest email address or
\* URL that starts there, or else the token alone as inert text
RECURSIVE run_parser(_, _, _)
run_parser(toks, k, groups) ==
    IF k > Len(toks) THEN <<>>
    ELSE IF emailEnd(toks, k) # 0
    THEN <<entity(toks, "email", k, emailEnd(toks, k))>>
         \o run_parser(toks, emailEnd(toks, k) + 1, groups)
    ELSE IF urlEnd(toks, k, groups) # 0
    THEN <<entity(toks, "url", k, urlEnd(toks, k, groups))>>
         \o run_parser(toks, urlEnd(toks, k, groups) + 1, groups)
    ELSE <<entity(toks, IF toks[k].t = tk("NL") THEN "nl" ELSE "text", k, k)>>
         \o run_parser(toks, k + 1, groups)

\* tokenize(str): the entities of the i-th result
tokenize(i) == run_parser(results[i].tokens, 1, scanners[scannerOf(i)].groups)

\* find(str): the links among them
isLinkEntity(x) == x.isLink
find(i) == SelectSeq(tokenize(i), isLinkEntity)

\* The texts with one link of the scheme: the scheme, the separator and x,
\* after nothing, a space or "x ", and before nothing, a space or " x"
Leads == {<<>>, <<32>>, <<120, 32>>}
Trails == {<<>>, <<32>>, <<32, 120>>}
separators(optional) == IF optional THEN {<<58>>, <<58, 47, 47>>} ELSE {<<58, 47, 47>>}

\* The link expected in text for the scheme, if text is one of those texts
expectedLinks(text, scheme, optional) ==
    {<<[type |-> scheme, s |-> Len(lead), e |-> Len(lead) + Len(scheme) + Len(sep) + 1]>> :
        <<lead, sep>> \in {x \in Leads \X separators(optional) :
            \E trail \in Trails : text = x[1] \o scheme \o x[2] \o <<120>> \o trail}}

\* The machine tokenize runs is the cached one, and the cached machine was
\* built from the registered schemes unless it is marked dirty
cacheIsCurrent ==
    /\ pc # "idle" => ~needsInit /\ start = scanners[INIT.scanner].start
    /\ (INIT.scanner # 0 /\ ~INIT.dirty) =>
            Range(scanners[INIT.scanner].customSchemes) = Range(INIT.customSchemes)
    /\ INIT.dirty =>
            /\ INIT.scanner # 0
            /\ Range(scanners[INIT.scanner].customSchemes) # Range(INIT.customSchemes)

ResetGivesAFreshProcess ==
    /\ (pc = "idle" /\ Len(results) >= 1 /\ Len(script) = 1 /\ Head(script).op = "tokenize")
        => INIT = FreshINIT
    /\ Done =>
        /\ results[Len(results)].str = results[1].str
        /\ results[Len(results)].tokens = results[1].tokens
        /\ linksOf(Len(results)) = linksOf(1)
        /\ scannerOf(Len(results)) > scannerOf(1)
        /\ scanners[scannerOf(Len(results))].customSchemes = <<>>
        /\ INIT = [scanner |-> scannerOf(Len(results)), customSchemes |-> <<>>, dirty |-> FALSE]

\* C16 witness: "ab:x" was a WORD, a COLON and a WORD in the fresh process, was
\* the link ab:x after ab was registered, and was the three tokens again after
\* reset
ResetWitness ==
    /\ Done
    /\ Len(results) = 3
    /\ \A n \in 1..3 : results[n].str = <<97, 98, 58, 120>>
    /\ linksOf(2) = <<[type |-> <<97, 98>>, s |-> 0, e |-> 4]>>
    /\ linksOf(3) = <<>>
    /\ Len(results[3].tokens) = 3
    /\ results[3].tokens[1].t = tk("WORD")

\* A registration of a scheme that breaks the syntax rules fails with
\* InvalidScheme and leaves the list of schemes, the dirty mark, the cached
\* machine and every machine built so far as they were
invalidIsRejected ==
    (/\ pc = "idle"
     /\ script # <<>>
     /\ Head(script).op = "register"
     /\ Head(script).customSchemes[1][1] \in BadSchemes)
    => /\ thrown' = "InvalidScheme"
       /\ INIT' = INIT
       /\ scanners' = scanners
       /\ heap' = heap
       /\ results' = results

\* No machine knows an invalid scheme, and the text tokenized after the
\* invalid registration gave what it gives in a process where only the valid
\* registrations were made
tokenizeIsUnaffected ==
    /\ \A n \in 1..Len(results) :
        /\ customWords(scannerOf(n)) \cap BadSchemes = {}
        /\ \A k \in 1..Len(linksOf(n)) : linksOf(n)[k].type \notin BadSchemes
    /\ Done =>
        /\ Len(results) >= 2
        /\ results[Len(results)].str = results[Len(results) - 1].str
        /\ results[Len(results)].tokens = results[Len(results) - 1].tokens
        /\ linksOf(Len(results)) = linksOf(Len(results) - 1)
        /\ scanners[scannerOf(Len(results))].customSchemes =
           scanners[scannerOf(Len(results) - 1)].customSchemes

\* C17: registerCustomProtocol with a scheme that breaks the syntax rules
\* fails with InvalidScheme and changes nothing: the list of custom schemes
\* and the cached machine are as before the call, and later tokenize results
\* are those of a process in which the call was never made
InvalidSchemeChangesNothing == [][invalidIsRejected]_vars /\ []tokenizeIsUnaffected

\* C17 witness: ab was registered and "ab:x" tokenized to the link ab:x, then
\* registering "a" failed with InvalidScheme, the machine of the first
\* tokenize still cached and ab still the only scheme
InvalidWitness ==
    /\ pc = "idle"
    /\ thrown = "InvalidScheme"
    /\ Len(script) = 4
    /\ Head(script) = tokenizeCall(<<97, 58, 120>>)
    /\ Len(results) = 1
    /\ linksOf(1) = <<[type |-> <<97, 98>>, s |-> 0, e |-> 4]>>
    /\ INIT = [scanner |-> scannerOf(1), customSchemes |-> <<<<<<97, 98>>, TRUE>>>>, dirty |-> FALSE]

\* The k-th token is a link and its validate callback returns true
accepted(k) == mtokens[k].isLink /\ opts.validate[mtokens[k].t] = "true"

\* The k-th token is a link and its validate callback returns false
refused(k) == mtokens[k].isLink /\ opts.validate[mtokens[k].t] = "false"

\* The k-th element is the plain text of the k-th token
plainText(k) == elements[k] = [type |-> "#text", key |-> <<>>, v |-> mtokens[k].v]

\* The k-th token is a newline and nl2br is true or 1
brokenLine(k) == mtokens[k].t = "nl" /\ opts.nl2br \in {"true", "1"}

\* stringToElements has returned
returned == pc = "idle" /\ script = <<>> /\ Len(results) = 1

\* One element was made for each token passed so far; a link element is the
\* element of an accepted link; a refused link is plain text; render is not
\* called for a token that is not a link
linksAreAcceptedLinks ==
    /\ Len(elements) = iToken
    /\ iToken <= Len(mtokens)
    /\ \A k \in 1..Len(elements) :
        /\ elements[k].type = "a" => accepted(k) /\ elements[k].v = mtokens[k].v
        /\ refused(k) => plainText(k)
        /\ ~mtokens[k].isLink => elements[k].type # "a"
    /\ thrown # "" => accepted(iToken + 1)
    /\ returned => results[1].tokens = elements /\ Len(elements) = Len(mtokens)

\* C18 as stated: a token becomes a link element only when it is a link and
\* validation accepts it; a refused link is its plain text; a token that is
\* not a link is always plain text and never passed to render; one element per
\* token, in token order
NonLinkIsAlwaysPlainText ==
    /\ linksAreAcceptedLinks
    /\ \A k \in 1..Len(elements) : ~mtokens[k].isLink => plainText(k)

\* C18: a token becomes a link element only when it is a link and validation
\* accepts it; a refused link is its plain text; a token that is not a link is
\* never passed to render and is plain text, unless it is a newline and nl2br
\* is truthy, when it is a line break; when stringToElements returns, it
\* returns one element per token, in token order
NonLinkIsPlainTextOrLineBreak ==
    /\ linksAreAcceptedLinks
    /\ \A k \in 1..Len(elements) :
        ~mtokens[k].isLink => IF brokenLine(k) THEN elements[k].type = "br" ELSE plainText(k)

\* C18 witness: of the url, the newline and the email address, with nl2br on
\* and validate accepting urls and refusing email addresses, the url became a
\* link element, the newline a line break and the email address its plain text
AcceptedWitness ==
    /\ returned
    /\ Len(mtokens) = 3
    /\ mtokens[1].t = "url" /\ mtokens[2].t = "nl" /\ mtokens[3].t = "email"
    /\ opts.validate = [url |-> "true", email |-> "false"]
    /\ opts.nl2br = "true"
    /\ results[1].tokens =
        <<[type |-> "a", key |-> <<"__linkify-el-", 0>>, v |-> <<98, 46, 99, 111>>],
          [type |-> "br", key |-> <<"__linkify-el-", 1>>, v |-> <<>>],
          [type |-> "#text", key |-> <<>>, v |-> <<99, 64, 100, 46, 99, 111>>]>>

\* The k-th token is a link and its validate callback throws
validateThrows(k) == mtokens[k].isLink /\ opts.validate[mtokens[k].t] = "throws"

\* The call of stringToElements has ended, by returning or by throwing
ended == pc = "idle" /\ script = <<>>

LineBreakIffNewlineAndNl2br ==
    \A k \in 1..Len(elements) :
        /\ elements[k].type = "br" <=> (mtokens[k].t = "nl" /\ opts.nl2br \in {"true", "1"})
        /\ elements[k].type = "br" => elements[k].v = <<>> /\ elements[k].key # <<>>
        /\ (mtokens[k].t = "nl" /\ opts.nl2br \in {"false", "0"}) => plainText(k)

\* C20 witness: with nl2br 1 the text, the newline and the url became the
\* text, a line break and a link element
LineBreakWitness ==
    /\ returned
    /\ opts.nl2br = "1"
    /\ Len(mtokens) = 3
    /\ mtokens[1].t = "text" /\ mtokens[2].t = "nl" /\ mtokens[3].t = "url"
    /\ results[1].tokens[1] = [type |-> "#text", key |-> <<>>, v |-> <<97>>]
    /\ results[1].tokens[2] = [type |-> "br", key |-> <<"__linkify-el-", 0>>, v |-> <<>>]
    /\ results[1].tokens[3].type = "a"

\* The offset p of s lies between the two halves of a surrogate pair
insidePair(s, p) ==
    /\ p >= 1
    /\ p < Len(s)
    /\ s[p] >= 55296 /\ s[p] <= 56319
    /\ s[p + 1] >= 56320 /\ s[p + 1] <= 57343

\* The code unit of the symbol the scanner gives the name
codeOf(name) == (CHOOSE p \in Range(Symbols) : p[2] = name)[1]

\* The number of code units c among the first n of value
RECURSIVE unitsIn(_, _, _)
unitsIn(value, n, c) ==
    IF n = 0 THEN 0 ELSE unitsIn(value, n - 1, c) + (IF value[n] = c THEN 1 ELSE 0)

\* The value of an entity of the i-th result
valueOf(i, x) == SubSeq(results[i].str, x.s + 1, x.e)

\* Every prefix of value has, in each family, as many openers as closers at
\* least
balanced(value) ==
    \A n \in 0..Len(value) : \A b \in Brackets :
        unitsIn(value, n, codeOf(b[1])) >= unitsIn(value, n, codeOf(b[2]))

\* Every closing bracket among the tokens of the i-th result that is in no
\* link is an inert entity of its own
closersOutsideAreInert(i) ==
    \A k \in 1..Len(results[i].tokens) :
        (/\ isCloser(results[i].tokens[k].t)
         /\ ~\E n \in 1..Len(find(i)) : find(i)[n].first <= k /\ k <= find(i)[n].last)
        => \E n \in 1..Len(tokenize(i)) :
                tokenize(i)[n] = entity(results[i].tokens, "text", k, k)

\* C21: in the value of every URL matched, every prefix has in each bracket
\* family as many openers as closers at least; a closing bracket that is not
\* taken into a link is an inert entity of its own
BracketsAreBalanced ==
    Done => \A i \in 1..Len(results) :
        /\ \A n \in 1..Len(find(i)) :
                find(i)[n].t = "url" => balanced(valueOf(i, find(i)[n]))
        /\ closersOutsideAreInert(i)

\* C21 witness: "a.co/())" gave the URL a.co/() and an inert ): the first )
\* was taken while the counter was 1, the second ended the link
BalancedWitness ==
    /\ Done
    /\ Len(results) = 1
    /\ results[1].str = <<97, 46, 99, 111, 47, 40, 41, 41>>
    /\ Len(tokenize(1)) = 2
    /\ tokenize(1)[1].t = "url"
    /\ valueOf(1, tokenize(1)[1]) = <<97, 46, 99, 111, 47, 40, 41>>
    /\ ~tokenize(1)[2].isLink
    /\ valueOf(1, tokenize(1)[2]) = <<41>>

\* The entities of the i-th result cover its string from left to right
entitiesCover(i) ==
    /\ (tokenize(i) = <<>>) = (results[i].str = <<>>)
    /\ tokenize(i) # <<>> =>
        /\ tokenize(i)[1].s = 0
        /\ tokenize(i)[Len(tokenize(i))].e = Len(results[i].str)
    /\ \A n \in 1..(Len(tokenize(i)) - 1) :
        /\ tokenize(i)[n].e = tokenize(i)[n + 1].s
        /\ tokenize(i)[n].s < tokenize(i)[n].e

\* The n-th entity of the i-th result is a link that ends with a token of
\* the trim set
endsUntrimmed(i, n) ==
    /\ tokenize(i)[n].isLink
    /\ stripped(results[i].tokens, tokenize(i)[n].first, tokenize(i)[n].last)

\* A token of the trim set, or a closing bracket, right after the n-th entity
\* of the i-th result is the next entity, and that entity is inert
strippedFollows(i, n) ==
    (/\ tokenize(i)[n].isLink
     /\ tokenize(i)[n].last < Len(results[i].tokens)
     /\ \/ results[i].tokens[tokenize(i)[n].last + 1].t \in TrimSet
        \/ isCloser(results[i].tokens[tokenize(i)[n].last + 1].t))
    => /\ n < Len(tokenize(i))
       /\ tokenize(i)[n + 1] = entity(results[i].tokens, "text",
                                      tokenize(i)[n].last + 1, tokenize(i)[n].last + 1)

\* C22: no URL or email address returned ends with a token of the trim set
\* or with a closing bracket that has no opener in it; what was stripped
\* follows the link as inert entities, and the entities cover the input
LinksAreTrimmed ==
    Done => \A i \in 1..Len(results) :
        /\ entitiesCover(i)
        /\ \A n \in 1..Len(tokenize(i)) : ~endsUntrimmed(i, n) /\ strippedFollows(i, n)

\* C22 witness: "a.co/x.." gave the URL a.co/x and two inert dots
TrimmedWitness ==
    /\ Done
    /\ Len(results) = 1
    /\ results[1].str = <<97, 46, 99, 111, 47, 120, 46, 46>>
    /\ Len(find(1)) = 1
    /\ valueOf(1, find(1)[1]) = <<97, 46, 99, 111, 47, 120>>
    /\ Len(tokenize(1)) = 3
    /\ valueOf(1, tokenize(1)[2]) = <<46>>
    /\ valueOf(1, tokenize(1)[3]) = <<46>>
    /\ ~tokenize(1)[2].isLink /\ ~tokenize(1)[3].isLink

\* C23: in run the two cursors stay in step: at the start of every turn of the
\* outer loop, also after a rollback, and all through the inner loop, cursor is
\* the number of code units in the first charCursor units of iterable; so no
\* token starts or ends between the halves of a surrogate pair
CursorsStayInStep ==
    /\ pc \in {"outer", "inner"} =>
        /\ charCursor >= 0 /\ charCursor <= charCount
        /\ cursor = offsetOf(iterable, charCursor)
        /\ ~insidePair(str, cursor)
        /\ \A k \in 1..Len(tokens) :
            ~insidePair(str, tokens[k].s) /\ ~insidePair(str, tokens[k].e)
    /\ \A n \in 1..Len(results) : \A k \in 1..Len(results[n].tokens) :
        /\ ~insidePair(results[n].str, results[n].tokens[k].s)
        /\ ~insidePair(results[n].str, results[n].tokens[k].e)

\* C23 witness: on U+1F600 followed by the joiner the inner loop went over both,
\* rolled back over the joiner, and the outer loop starts again at unit 1,
\* offset 2
InStepWitness ==
    /\ pc = "outer"
    /\ str = <<55357, 56832, 8205>>
    /\ sinceAccepts = 1
    /\ charsSinceAccepts = 1
    /\ charCursor = 1
    /\ cursor = 2
    /\ Len(tokens) = 1
    /\ tokens[1].s = 0 /\ tokens[1].e = 2

\* The unit the current turn of the outer loop began at: the unit at the end
\* of the last token
turnBegan ==
    CHOOSE n \in 0..charCount :
        offsetOf(iterable, n) = IF tokens = <<>> THEN 0 ELSE tokens[Len(tokens)].e

\* A turn of the outer loop, net of its rollback, advances charCursor by at
\* least one unit and pushes one token with e > s
turnAdvances ==
    (pc = "inner" /\ pc' # "inner") =>
        /\ pc' = "outer"
        /\ charCursor' >= turnBegan + 1
        /\ charCursor' <= charCount
        /\ Len(tokens') = Len(tokens) + 1
        /\ tokens'[Len(tokens')].e > tokens'[Len(tokens')].s

\* There are no more tokens than units passed
tokensAreFew ==
    /\ pc \in {"outer", "inner"} => Len(tokens) <= charCursor /\ Len(tokens) <= charCount
    /\ \A n \in 1..Len(results) :
        Len(results[n].tokens) <= Len(stringToArray(results[n].str))

\* C24: run terminates on every input: each turn of the outer loop, net of its
\* rollback, advances charCursor by at least one code point and pushes one
\* token with e > s, so there are at most as many tokens as code points, and
\* every call of run returns
RunTerminates ==
    /\ [][turnAdvances]_vars
    /\ []tokensAreFew
    /\ (pc \in {"outer", "inner"}) ~> (pc = "idle")

\* C24 witness: run returned after three turns with three tokens for the three
\* code points of "a-" and a line feed, the hyphen passed over in the first
\* turn and rolled back
TerminatesWitness ==
    /\ Done
    /\ Len(results) = 1
    /\ results[1].str = <<97, 45, 10>>
    /\ Len(results[1].tokens) = 3
    /\ results[1].tokens[1].e = 1
    /\ results[1].tokens[2].e = 2
    /\ results[1].tokens[3].e = 3

\* C25: whitespace kinds are never mixed in one token: only NL tokens hold a
\* line feed, so no WS token does; the value of every NL token is LF or CR LF;
\* and a line feed that follows a WS token is an NL token of its own
WhitespaceKindsStayApart ==
    \A n \in 1..Len(results) : \A k \in 1..Len(results[n].tokens) :
        /\ LF \in Range(results[n].tokens[k].v) => results[n].tokens[k].t = tk("NL")
        /\ results[n].tokens[k].t = tk("NL") => results[n].tokens[k].v \in {<<LF>>, <<CR, LF>>}
        /\ (/\ results[n].tokens[k].t = tk("WS")
            /\ results[n].tokens[k].e < Len(results[n].str)
            /\ results[n].str[results[n].tokens[k].e + 1] = LF)
           => /\ k < Len(results[n].tokens)
              /\ results[n].tokens[k + 1] =
                    [t |-> tk("NL"), v |-> <<LF>>, s |-> results[n].tokens[k].e,
                     e |-> results[n].tokens[k].e + 1]

\* C25 witness: CR, CR, LF was scanned as a WS token over the two CRs and an
\* NL token over the line feed alone
KindsApartWitness ==
    /\ Done
    /\ Len(results) = 1
    /\ results[1].str = <<CR, CR, LF>>
    /\ Len(results[1].tokens) = 2
    /\ results[1].tokens[1].t = tk("WS")
    /\ results[1].tokens[2].t = tk("NL")
    /\ results[1].tokens[2].v = <<LF>>

\* C26 as stated: no token tagged UWORD or UTLD contains an ASCII letter
NoAsciiLetterInUword ==
    \A n \in 1..Len(results) : \A k \in 1..Len(results[n].tokens) :
        results[n].tokens[k].t \in {tk("UWORD"), tk("UTLD")} =>
            \A p \in 1..Len(results[n].tokens[k].v) : ~isAsciiLetter(results[n].tokens[k].v[p])

\* What does hold: no UTLD token contains an ASCII letter, and an ASCII letter
\* in a UWORD token comes right after the beginning of the token, which is all
\* or the beginning of an internationalized top-level domain
AsciiLetterOnlyAfterUtldPrefix ==
    \A n \in 1..Len(results) : \A k \in 1..Len(results[n].tokens) :
        \A p \in 1..Len(results[n].tokens[k].v) :
            (/\ results[n].tokens[k].t \in {tk("UWORD"), tk("UTLD")}
             /\ isAsciiLetter(results[n].tokens[k].v[p]))
            => /\ results[n].tokens[k].t = tk("UWORD")
               /\ p >= 2
               /\ SubSeq(results[n].tokens[k].v, 1, p - 1) \in prefixesOf(Range(utlds.v))

\* C26 witness: U+0440, the beginning of a top-level domain, and c after it
\* came out as one UWORD token
LettersWitness ==
    /\ Done
    /\ Len(results) = 1
    /\ results[1].str = <<1088, 99>>
    /\ results[1].tokens = <<[t |-> tk("UWORD"), v |-> <<1088, 99>>, s |-> 0, e |-> 2]>>

\* The keys of log that begin with prefix, in order
keysOf(log, prefix) == SelectSeq(log, LAMBDA key : key[1] = prefix)

\* C27: within one render of the Linkify component with the default link
\* renderer all generated keys are pairwise distinct: the __linkify-el-N keys
\* are N = 0, 1, 2, ... in the order they are made, across string children and
\* nested elements, the __linkify-lnk-N keys likewise from a counter of their
\* own
GeneratedKeysAreDistinct ==
    \A n \in 1..Len(results) :
        /\ \A i, j \in 1..Len(results[n].tokens) :
            results[n].tokens[i] = results[n].tokens[j] => i = j
        /\ \A i \in 1..Len(keysOf(results[n].tokens, "__linkify-el-")) :
            keysOf(results[n].tokens, "__linkify-el-")[i] = <<"__linkify-el-", i - 1>>
        /\ \A i \in 1..Len(keysOf(results[n].tokens, "__linkify-lnk-")) :
            keysOf(results[n].tokens, "__linkify-lnk-")[i] = <<"__linkify-lnk-", i - 1>>
        /\ Len(keysOf(results[n].tokens, "__linkify-el-")) = meta.elementId
        /\ Len(keysOf(results[n].tokens, "__linkify-lnk-")) = results[n].linkId

\* C27 witness: "b.co" and <b><i>b.co</i>b.co</b> were rendered: three link
\* keys, and element keys for the three links, the i, the b and the wrapper
DistinctKeysWitness ==
    /\ Done
    /\ Len(results) = 1
    /\ results[1].str = <<stringChild(<<UrlToken>>),
                          elementChild("b", <<elementChild("i", <<stringChild(<<UrlToken>>)>>),
                                              stringChild(<<UrlToken>>)>>)>>
    /\ results[1].tokens =
        <<<<"__linkify-lnk-", 0>>, <<"__linkify-el-", 0>>,
          <<"__linkify-lnk-", 1>>, <<"__linkify-el-", 1>>, <<"__linkify-el-", 2>>,
          <<"__linkify-lnk-", 2>>, <<"__linkify-el-", 3>>, <<"__linkify-el-", 4>>,
          <<"__linkify-el-", 5>>>>

----------------------------------------------------------------------------
(* Specifications *)

\* One machine, one string
Init == \E cs \in {<<>>, SchemesAB} : Loaded(<<initCall(cs), chooseFrom("mixed")>>)

Spec == Init /\ [][Next]_vars

\* One machine, a string and its upper-case form
InitCase == \E cs \in {<<>>, SchemesAB} : Loaded(<<initCall(cs), chooseFrom("case")>>)

SpecCase == InitCase /\ [][Next]_vars

\* One machine with custom schemes, one of its words
InitKeywords == \E cs \in KeywordSchemeLists : Loaded(<<initCall(cs), chooseFrom("keywords")>>)

SpecKeywords == InitKeywords /\ [][Next]_vars

\* One machine with custom schemes of every shape, one of its words
InitFlags == \E cs \in FlagSchemeLists : Loaded(<<initCall(cs), chooseFrom("keywords")>>)

SpecFlags == InitFlags /\ [][Next]_vars

\* Two machines from one list of custom schemes in two orders, one string on both
InitOrder ==
    \E pair \in OrderedPairs :
        Loaded(<<initCall(pair[1]), initCall(pair[2]), chooseFrom("order")>>)

SpecOrder == InitOrder /\ [][Next]_vars

\* One machine, one string of emoji pieces
InitEmoji == Loaded(<<initCall(<<>>), chooseFrom("emoji")>>)

SpecEmoji == InitEmoji /\ [][Next]_vars

\* One machine with custom schemes, one string of letters and digits
InitWords == \E cs \in WordSchemeLists : Loaded(<<initCall(cs), chooseFrom("words")>>)

SpecWords == InitWords /\ [][Next]_vars

\* Two machines from the same custom schemes, one string on the first, on the
\* second and on the first again
InitTwice ==
    \E cs \in {<<>>, SchemesAB} : Loaded(<<initCall(cs), initCall(cs), chooseFrom("twice")>>)

SpecTwice == InitTwice /\ [][Next]_vars

\* One machine, one string on it before and after another machine is built
InitFrame == \E cs \in {<<>>, SchemesAB} : Loaded(<<initCall(cs), chooseFrom("frame")>>)

SpecFrame == InitFrame /\ [][Next]_vars

\* One machine, one string of surrogates
InitSplit == Loaded(<<initCall(<<>>), chooseFrom("split")>>)

SpecSplit == InitSplit /\ [][Next]_vars

\* decodeTlds called by itself on one encoded string
InitDecode == Loaded(<<chooseFrom("decode")>>)

SpecDecode == InitDecode /\ [][NextDecode]_vars

\* reset, a text tokenized before and after a scheme is registered
InitRegister == Loaded(<<resetCall, chooseFrom("register")>>)

SpecRegister == InitRegister /\ [][NextLinkify]_vars

\* reset, a text tokenized in the fresh process, some calls, reset, the text
\* tokenized again
InitReset == Loaded(<<resetCall, chooseFrom("reset")>>)

SpecReset == InitReset /\ [][NextLinkify]_vars

\* reset, some calls, a registration of an invalid scheme and a text
\* tokenized, then the same text in a process without the invalid call
InitInvalid == Loaded(<<resetCall, chooseFrom("invalid")>>)

SpecInvalid == InitInvalid /\ [][NextLinkify]_vars

\* One call of stringToElements
InitReact == Loaded(<<chooseFrom("react")>>)

SpecReact == InitReact /\ [][NextReact]_vars

\* One machine and one run on each string; run is sequential code, so once
\* called it takes the step it can take
InitEnds == \E cs \in {<<>>, SchemesAB} : Loaded(<<initCall(cs), chooseFrom("ends")>>)

RunStep == Run_outer \/ Run_inner \/ Run_push \/ Run_return

SpecEnds == InitEnds /\ [][Next]_vars /\ WF_vars(RunStep)

\* One machine and one run on each string of letters
InitLetters == \E cs \in {<<>>, SchemesAB} : Loaded(<<initCall(cs), chooseFrom("letters")>>)

SpecLetters == InitLetters /\ [][Next]_vars

\* reset, ab registered, one text with a link start tokenized
InitLinks == Loaded(<<resetCall, chooseFrom("links")>>)

SpecLinks == InitLinks /\ [][NextLinkify]_vars

\* One render of a Linkify component
InitRender == Loaded(<<chooseFrom("render")>>)

SpecRender == InitRender /\ [][NextRender]_vars

====
